---- MODULE Spec2Model ----
(***************************************************************************)
(* Cart state store of the Lorcana card shop (CartContext.jsx).            *)
(*                                                                         *)
(* Money is kept in fixed point: prices, shipping, the premium packaging   *)
(* price and the subtotal are integer cents (1/100); the tax rate is in    *)
(* percent; getTaxAmount and calculateTotal are in units of 1/10000.       *)
(*                                                                         *)
(* React runs the provider as a sequence of steps: a handler's             *)
(* setCartItems is committed by a render in the task of the event, the     *)
(* effects of that render run at the end of the same task, and the state   *)
(* updates the effects made (setCartCount, setCartSubtotal) are committed  *)
(* by a further render that React schedules as a task of its own.  pc is   *)
(* the position in that sequence.                                          *)
(***************************************************************************)
EXTENDS Integers, Sequences, FiniteSets, TLC

\* ---- bounds of the model -------------------------------------------------
MaxQty == 2
\* the requests that one view of the admin route has in flight at a time
MaxInFlight == 1
\* the cards of the catalog that the card list pages through
NumListed == 17

\* ---- program constants ---------------------------------------------------
FallbackPrice == 399
DefaultShipping == 599
DefaultPremiumPackPrice == 1999
TaxRatePct == 13

\* ---- input domains -------------------------------------------------------
Undefined == "undefined"
NoPrice == -1
\* the catalog items the catalog service returns: card 1 with a price, card 1
\* after the catalog changed its name, image and price, card 2 without name,
\* image and price, and card 2 after its price was set to 0
Cards ==
    {[_id |-> 1, Name |-> "Elsa", Image |-> "elsa.png", Price |-> 499],
     [_id |-> 1, Name |-> "Elsa - Snow Queen", Image |-> "elsa-2.png", Price |-> 650],
     [_id |-> 2, Name |-> Undefined, Image |-> Undefined, Price |-> NoPrice],
     [_id |-> 2, Name |-> Undefined, Image |-> Undefined, Price |-> 0]}
CardIds == {card._id : card \in Cards}
QuantityArgs == (-1)..MaxQty
ShippingArgs == {DefaultShipping, 1250}
PremiumPackArgs == {DefaultPremiumPackPrice, 500}

VARIABLES
    cartItems,          \* useState([]) : the line items, in order
    cartCount,          \* useState(0)
    cartSubtotal,       \* useState(0), cents
    shipping,           \* useState(5.99), cents
    premiumPackPrice,   \* useState(19.99), cents
    storage,            \* localStorage entry 'lorcanaCart'
    pending,            \* state updates queued by effects, not yet rendered
    pc,                 \* position of the provider in React's commit sequence
    persisted,          \* history: the storage entry the session started from
    lastOp,             \* history: the last cart operation the user requested
    firstAdded,         \* history: ids in the cart, in the order of first addition
    route,              \* the route whose view is mounted
    viewPremiumPackPrice,   \* Cart: useState(19.99), the view's own premiumPackPrice
    shippingOptions,        \* Cart: useState([]), the loaded shipping-options table
    selectedShippingOption, \* Cart: useState(''), id of the selected option
    loadingPricing,         \* Cart: useState(true)
    cards,                  \* DisplayCard: useState([])
    loading,                \* DisplayCard: useState(true)
    error,                  \* DisplayCard: useState(null)
    filteredCards,          \* DisplayCard: useState([])
    cardsPerPage,           \* DisplayCard: useState(8)
    currentPage,            \* DisplayCard: useState(1)
    selectedSet,            \* DisplayCard: useState('')
    selectedRarity,         \* DisplayCard: useState('')
    selectedColor,          \* DisplayCard: useState('')
    pagePc,                 \* DisplayCard: position in its sequence of effects and renders
    saveStatus,             \* AdminControls: useState({show: false, ...})
    hideTimer,              \* AdminControls: the 3 second timer is set
    searchResults,          \* CardSearch: useState([])
    selectedCard,           \* CardSearch: useState(null), here the card's _id
    newCardPrice,           \* CardSearch: useState(''), the content of the price field
    statusMessage,          \* CardSearch: useState({show: false, ...})
    catalog,            \* the cards the card catalog service holds
    otherItems,         \* a second tab: its cartItems
    otherPending,       \* a second tab: the cart its load effect queued
    otherPc,            \* a second tab: position of its provider, or "closed"
    lastWriter,         \* history: the tab that wrote the storage entry last
    pricingSettings,    \* the settings the admin settings service holds
    fetching,           \* requests in flight, with what their handler captured
    lastFetch           \* history: the request that completed last

storeVars == <<cartItems, cartCount, cartSubtotal, shipping, premiumPackPrice,
               storage, pending, pc, persisted, lastOp, firstAdded>>

cartView == <<viewPremiumPackPrice, shippingOptions, selectedShippingOption,
              loadingPricing>>

pagination == <<filteredCards, cardsPerPage, currentPage, selectedSet, selectedRarity,
                selectedColor, pagePc>>

displayCard == <<cards, loading, error, pagination>>

adminControls == <<saveStatus, hideTimer>>

cardSearch == <<searchResults, selectedCard, newCardPrice, statusMessage>>

services == <<pricingSettings, catalog>>

views == <<route, cartView, displayCard, adminControls, cardSearch, services,
           fetching, lastFetch>>

tabs == <<otherItems, otherPending, otherPc, lastWriter>>

vars == <<storeVars, views, tabs>>

history == <<persisted, lastOp, firstAdded>>

\* ---- pricing settings and shipping options --------------------------------
NoSelection == ""

\* the settings the admin view starts from, the same settings after an admin
\* raised the premium packaging price and the price of the first region, and
\* settings that hold neither a premium packaging price nor shipping prices
InitialSettings ==
    [premiumPackPrice |-> 1999, hasShippingPrices |-> TRUE,
     shippingPrices |-> <<[region |-> "GTA", price |-> 599],
                          [region |-> "Canada Wide", price |-> 1299]>>]
ChangedSettings ==
    [premiumPackPrice |-> 2499, hasShippingPrices |-> TRUE,
     shippingPrices |-> <<[region |-> "GTA", price |-> 799],
                          [region |-> "Canada Wide", price |-> 1299]>>]
BareSettings ==
    [premiumPackPrice |-> NoPrice, hasShippingPrices |-> FALSE, shippingPrices |-> <<>>]
PricingSettings == {InitialSettings, ChangedSettings, BareSettings}

\* region.toLowerCase().replace(/\s+/g, '-')
OptionId(region) ==
    CASE region = "GTA" -> "gta"
      [] region = "Canada Wide" -> "canada-wide"

\* Object.entries(data.shippingPrices).map(...) ; the prices are numbers, which
\* parseFloat returns as they are
ShippingOptionsOf(data) ==
    [i \in 1..Len(data.shippingPrices) |->
        [id |-> OptionId(data.shippingPrices[i].region),
         name |-> data.shippingPrices[i].region,
         price |-> data.shippingPrices[i].price]]

\* shippingOptions.find(opt => opt.id === optionId) : the index, 0 for undefined
FindOption(options, optionId) ==
    IF \E i \in 1..Len(options) : options[i].id = optionId
    THEN CHOOSE i \in 1..Len(options) :
            /\ options[i].id = optionId
            /\ \A j \in 1..(i - 1) : options[j].id # optionId
    ELSE 0

NoFetch == [api |-> "none", view |-> "none", ok |-> TRUE, live |-> TRUE]
\* history: a handler of the view returned before it sent its request
NotSent(view) == [api |-> "none", view |-> view, ok |-> FALSE, live |-> TRUE]

\* ---- the other views -----------------------------------------------------
\* the buttons "Cards per page" of the card list, and its initial value
CardsPerPageOptions == {8, 12, 24}
DefaultCardsPerPage == 8
\* '' in a filter selection: "All Sets", "All Rarities", "All Colors"
NoFilter == ""

\* null in the error state of DisplayCard and in selectedCard of CardSearch
NoError == "null"
NoCard == 0

\* {show: false, message: '', variant}
NoStatus(variant) == [show |-> FALSE, variant |-> variant]
\* the alert is shown; its variant tells a success from a failure, its text is
\* not kept
Status(message, variant) == [show |-> TRUE, variant |-> variant]

\* the message of the Error that handleResponse throws
ServerError == "Server error: 500"

\* the card the catalog service holds, and the prices an admin gives it
InitialCatalog == <<[_id |-> 1, Name |-> "Elsa", Image |-> "elsa.png", Price |-> 499]>>
NewCardPrices == {650}

\* the content of the price field of the card search: the empty string, or
\* the text of a price
EmptyText == ""
FieldText(price) ==
    CASE price = 499 -> "4.99"
      [] price = 650 -> "6.50"
parseFloat(text) ==
    CASE text = "4.99" -> 499
      [] text = "6.50" -> 650
\* what an admin types into the price field: a price, or nothing after
\* deleting what the field held
TypedTexts == {EmptyText} \cup {FieldText(price) : price \in NewCardPrices}
\* the price the default rarity pricing gives the card
RarityPrice == 499

\* ---- JSON ----------------------------------------------------------------
\* JSON.stringify of one line item: a key whose value is undefined is dropped
StringifyItem(item) ==
    LET keys == {"id", "price", "quantity", "premiumPackaging"}
                \cup (IF item.name # Undefined THEN {"name"} ELSE {})
                \cup (IF item.image # Undefined THEN {"image"} ELSE {})
    IN  [k \in keys |-> item[k]]

\* JSON.parse of one line item: reading a key that is not there gives undefined
ParseItem(obj) ==
    [id |-> obj["id"],
     name |-> IF "name" \in DOMAIN obj THEN obj["name"] ELSE Undefined,
     image |-> IF "image" \in DOMAIN obj THEN obj["image"] ELSE Undefined,
     price |-> obj["price"],
     quantity |-> obj["quantity"],
     premiumPackaging |-> obj["premiumPackaging"]]

\* the storage entry: kind "absent" (getItem returns null), "empty" (the
\* empty string), "unparseable" (JSON.parse throws), "object" (JSON that is
\* not an array), "nullArray" (the array [null]), "array" (line items)
StorageEntry(kind, text) == [kind |-> kind, text |-> text]

JSONstringify(items) ==
    StorageEntry("array", [i \in 1..Len(items) |-> StringifyItem(items[i])])

JSONparse(entry) ==
    [i \in 1..Len(entry.text) |-> ParseItem(entry.text[i])]

\* ---- reductions of the save effect and of the pricing functions ----------
RECURSIVE ReduceCount(_, _)
ReduceCount(items, total) ==
    IF items = <<>> THEN total
    ELSE ReduceCount(Tail(items), total + Head(items).quantity)

\* a reduce that depends on the position of an item: the item it starts with
\* is counted once, whatever its quantity
RECURSIVE ReduceSubtotalFirstOnce(_, _)
ReduceSubtotalFirstOnce(items, total) ==
    IF items = <<>> THEN total
    ELSE ReduceSubtotalFirstOnce(Tail(items),
             total + (Head(items).price * (IF total = 0 THEN 1 ELSE Head(items).quantity)))

RECURSIVE ReduceSubtotal(_, _)
ReduceSubtotal(items, total) ==
    IF items = <<>> THEN total
    ELSE ReduceSubtotal(Tail(items), total + (Head(items).price * Head(items).quantity))

RECURSIVE ReducePremium(_, _, _)
ReducePremium(items, packPrice, total) ==
    IF items = <<>> THEN total
    ELSE ReducePremium(Tail(items), packPrice,
             IF Head(items).premiumPackaging
             THEN total + (packPrice * Head(items).quantity)
             ELSE total)

calculatePremiumPackagingTotal == ReducePremium(cartItems, premiumPackPrice, 0)

\* getTaxAmount with the premium packaging in the taxable amount
getTaxAmountTaxingPackaging ==
    (cartSubtotal + shipping + calculatePremiumPackagingTotal) * TaxRatePct

\* getTaxAmount that taxes the subtotal only
getTaxAmountWithoutShipping == cartSubtotal * TaxRatePct

\* units of 1/10000
getTaxAmount == (cartSubtotal + shipping) * TaxRatePct

\* calculateTotal that applies the tax to the premium packaging as well
calculateTotalTaxingPackaging ==
    LET premiumPackagingTotal == calculatePremiumPackagingTotal
        taxableAmount == cartSubtotal + shipping + premiumPackagingTotal
        taxAmount == taxableAmount * TaxRatePct
    IN  (cartSubtotal + shipping + premiumPackagingTotal) * 100 + taxAmount

\* units of 1/10000
calculateTotal ==
    LET premiumPackagingTotal == calculatePremiumPackagingTotal
        taxableAmount == cartSubtotal + shipping
        taxAmount == taxableAmount * TaxRatePct
    IN  (cartSubtotal + shipping + premiumPackagingTotal) * 100 + taxAmount

\* ---- updaters passed to setCartItems -------------------------------------
HasItem(items, id) == \E i \in 1..Len(items) : items[i].id = id

\* card.Price || 3.99 : a missing price and the price 0 are both falsy
PriceOrDefault(price) == IF price = NoPrice \/ price = 0 THEN FallbackPrice ELSE price

\* addToCart without the lookup of an existing item
AddToCartItemsAlwaysAppend(prevItems, card) ==
    Append(prevItems,
        [id |-> card._id, name |-> card.Name, image |-> card.Image,
         price |-> PriceOrDefault(card.Price), quantity |-> 1, premiumPackaging |-> FALSE])

\* addToCart that puts a new item in front: [newItem, ...prevItems]
AddToCartItemsPrepend(prevItems, card) ==
    IF HasItem(prevItems, card._id)
    THEN [i \in 1..Len(prevItems) |->
            IF prevItems[i].id = card._id
            THEN [prevItems[i] EXCEPT !.quantity = @ + 1]
            ELSE prevItems[i]]
    ELSE <<[id |-> card._id, name |-> card.Name, image |-> card.Image,
            price |-> PriceOrDefault(card.Price), quantity |-> 1,
            premiumPackaging |-> FALSE]>> \o prevItems

\* addToCart that copies the catalog data again when the item is in the cart
AddToCartItemsResync(prevItems, card) ==
    IF HasItem(prevItems, card._id)
    THEN [i \in 1..Len(prevItems) |->
            IF prevItems[i].id = card._id
            THEN [prevItems[i] EXCEPT !.quantity = @ + 1,
                                      !.name = card.Name,
                                      !.image = card.Image,
                                      !.price = PriceOrDefault(card.Price)]
            ELSE prevItems[i]]
    ELSE Append(prevItems,
            [id |-> card._id, name |-> card.Name, image |-> card.Image,
             price |-> PriceOrDefault(card.Price), quantity |-> 1,
             premiumPackaging |-> FALSE])

AddToCartItems(prevItems, card) ==
    IF HasItem(prevItems, card._id)
    THEN [i \in 1..Len(prevItems) |->
            IF prevItems[i].id = card._id
            THEN [prevItems[i] EXCEPT !.quantity = @ + 1]
            ELSE prevItems[i]]
    ELSE Append(prevItems,
            [id |-> card._id,
             name |-> card.Name,
             image |-> card.Image,
             price |-> PriceOrDefault(card.Price),
             quantity |-> 1,
             premiumPackaging |-> FALSE])

\* updateQuantity whose map forgets the test item.id === id
UpdateQuantityItemsAll(prevItems, id, quantity) ==
    [i \in 1..Len(prevItems) |-> [prevItems[i] EXCEPT !.quantity = quantity]]

UpdateQuantityItems(prevItems, id, quantity) ==
    [i \in 1..Len(prevItems) |->
        IF prevItems[i].id = id
        THEN [prevItems[i] EXCEPT !.quantity = quantity]
        ELSE prevItems[i]]

\* togglePremiumPackaging that switches the packaging on instead of flipping it
TogglePremiumItemsOn(prevItems, id) ==
    [i \in 1..Len(prevItems) |->
        IF prevItems[i].id = id
        THEN [prevItems[i] EXCEPT !.premiumPackaging = TRUE]
        ELSE prevItems[i]]

TogglePremiumItems(prevItems, id) ==
    [i \in 1..Len(prevItems) |->
        IF prevItems[i].id = id
        THEN [prevItems[i] EXCEPT !.premiumPackaging = ~@]
        ELSE prevItems[i]]

\* removeFromCart whose filter keeps the first item whatever its id
RECURSIVE RemoveItemsKeepFirst(_, _)
RemoveItemsKeepFirst(prevItems, id) ==
    IF prevItems = <<>> THEN <<>>
    ELSE <<Head(prevItems)>> \o
         SelectSeq(Tail(prevItems), LAMBDA item : item.id # id)

RECURSIVE RemoveItems(_, _)
RemoveItems(prevItems, id) ==
    IF prevItems = <<>> THEN <<>>
    ELSE IF Head(prevItems).id # id
         THEN <<Head(prevItems)>> \o RemoveItems(Tail(prevItems), id)
         ELSE RemoveItems(Tail(prevItems), id)

\* ---- React state of the provider -----------------------------------------
NoPending == [hasItems |-> FALSE, kind |-> "array", items |-> <<>>,
              hasTotals |-> FALSE, count |-> 0, subtotal |-> 0]

NoOp == "none"
\* no cart is queued by the load effect of the second tab
NoItems == [hasItems |-> FALSE, items |-> <<>>]

RECURSIVE Without(_, _)
Without(ids, id) ==
    IF ids = <<>> THEN <<>>
    ELSE IF Head(ids) = id THEN Without(Tail(ids), id)
         ELSE <<Head(ids)>> \o Without(Tail(ids), id)

NoHistory == [valid |-> FALSE, entry |-> StorageEntry("absent", <<>>)]

\* the entries a browser can hold before the first session of the model
InitialEntries ==
    {StorageEntry(k, <<>>) : k \in {"absent", "empty", "unparseable", "object", "nullArray"}}

Init ==
    /\ cartItems = <<>>
    /\ cartCount = 0
    /\ cartSubtotal = 0
    /\ shipping = DefaultShipping
    /\ premiumPackPrice = DefaultPremiumPackPrice
    /\ storage \in InitialEntries
    /\ pending = NoPending
    /\ pc = "loadEffect"
    /\ persisted = [valid |-> TRUE, entry |-> storage]
    /\ lastOp = NoOp
    /\ firstAdded = <<>>
    /\ route = "/"
    /\ viewPremiumPackPrice = DefaultPremiumPackPrice
    /\ shippingOptions = <<>>
    /\ selectedShippingOption = NoSelection
    /\ loadingPricing = TRUE
    /\ cards = <<>>
    /\ loading = TRUE
    /\ error = NoError
    /\ filteredCards = <<>>
    /\ cardsPerPage = DefaultCardsPerPage
    /\ currentPage = 1
    /\ selectedSet = NoFilter
    /\ selectedRarity = NoFilter
    /\ selectedColor = NoFilter
    /\ pagePc = "idle"
    /\ saveStatus = NoStatus("success")
    /\ hideTimer = FALSE
    /\ searchResults = <<>>
    /\ selectedCard = NoCard
    /\ newCardPrice = EmptyText
    /\ statusMessage = NoStatus("info")
    /\ pricingSettings = InitialSettings
    /\ catalog = InitialCatalog
    /\ fetching = {}
    /\ lastFetch = NoFetch
    /\ otherItems = <<>>
    /\ otherPending = NoItems
    /\ otherPc = "closed"
    /\ lastWriter = 0

\* a load effect that reads the entry and never calls setCartItems
LoadEffectNoRestore ==
    /\ pc = "loadEffect"
    /\ pc' = IF storage.kind = "unparseable" THEN "crashed" ELSE "saveEffect"
    /\ UNCHANGED <<cartItems, cartCount, cartSubtotal, shipping, premiumPackPrice,
                   storage, pending, history>>

\* useEffect(() => {...}, []) : runs once, after the first render
LoadEffect ==
    /\ pc = "loadEffect"
    /\ IF storage.kind \in {"absent", "empty"}
       THEN /\ pc' = "saveEffect"
            /\ pending' = pending
       ELSE IF storage.kind = "unparseable"
       THEN \* JSON.parse throws; the error is uncaught and React unmounts the tree
            /\ pc' = "crashed"
            /\ pending' = pending
       ELSE /\ pc' = "saveEffect"
            /\ pending' = [pending EXCEPT !.hasItems = TRUE,
                                          !.kind = storage.kind,
                                          !.items = JSONparse(storage)]
    /\ UNCHANGED <<cartItems, cartCount, cartSubtotal, shipping, premiumPackPrice,
                   storage, history>>

\* a save effect that writes only a cart that holds items
SaveEffectSkipEmpty ==
    /\ pc = "saveEffect"
    /\ storage' = IF cartItems = <<>> THEN storage ELSE JSONstringify(cartItems)
    /\ pending' = [pending EXCEPT !.hasTotals = TRUE,
                                  !.count = ReduceCount(cartItems, 0),
                                  !.subtotal = ReduceSubtotal(cartItems, 0)]
    /\ pc' = "render"
    /\ UNCHANGED <<cartItems, cartCount, cartSubtotal, shipping, premiumPackPrice,
                   history>>

\* useEffect(() => {...}, [cartItems]) : runs after every render that
\* committed a new cartItems value
SaveEffect ==
    /\ pc = "saveEffect"
    /\ storage' = JSONstringify(cartItems)
    /\ pending' = [pending EXCEPT !.hasTotals = TRUE,
                                  !.count = ReduceCount(cartItems, 0),
                                  !.subtotal = ReduceSubtotal(cartItems, 0)]
    /\ pc' = "render"
    /\ UNCHANGED <<cartItems, cartCount, cartSubtotal, shipping, premiumPackPrice,
                   history>>

\* the render that commits the state updates queued by the effects
Render ==
    /\ pc = "render"
    /\ cartCount' = IF pending.hasTotals THEN pending.count ELSE cartCount
    /\ cartSubtotal' = IF pending.hasTotals THEN pending.subtotal ELSE cartSubtotal
    /\ pending' = NoPending
    /\ IF ~pending.hasItems
       THEN /\ pc' = "idle"
            /\ UNCHANGED <<cartItems, storage>>
       ELSE IF pending.kind = "array"
       THEN /\ cartItems' = pending.items
            /\ pc' = "saveEffect"
            /\ UNCHANGED storage
       ELSE \* a value that is not an array of line items is committed; the
            \* save effect writes it back and its reduce throws a TypeError
            /\ cartItems' = <<>>
            /\ storage' = StorageEntry(pending.kind, <<>>)
            /\ pc' = "crashed"
    /\ UNCHANGED <<shipping, premiumPackPrice, history>>

\* An event handler can run when the provider is idle, and also between the
\* save effect and the render that commits the totals it queued: that render
\* is a later task.  Before the cart loaded from storage is rendered no view
\* offers a cart operation.
CanHandleEvent == pc \in {"idle", "render"} /\ ~pending.hasItems

\* setCartItems in an event handler: the handler and the render that commits
\* its update; totals queued by an earlier effect stay queued
SetCartItems(newItems) ==
    /\ cartItems' = newItems
    /\ pc' = "saveEffect"
    /\ persisted' = NoHistory
    /\ UNCHANGED <<cartCount, cartSubtotal, shipping, premiumPackPrice, storage, pending>>

addToCart(card) ==
    /\ CanHandleEvent
    /\ \A i \in 1..Len(cartItems) : cartItems[i].id = card._id => cartItems[i].quantity < MaxQty
    /\ SetCartItems(AddToCartItems(cartItems, card))
    /\ lastOp' = IF \E i \in 1..Len(cartItems) :
                        /\ cartItems[i].id = card._id
                        /\ \/ cartItems[i].name # card.Name
                           \/ cartItems[i].image # card.Image
                           \/ cartItems[i].price # PriceOrDefault(card.Price)
                  THEN "addToCartChanged" ELSE "addToCart"
    /\ firstAdded' = IF \E i \in 1..Len(firstAdded) : firstAdded[i] = card._id
                     THEN firstAdded ELSE Append(firstAdded, card._id)

\* updateQuantity without the early return for quantity < 1
updateQuantityUnguarded(id, quantity) ==
    /\ CanHandleEvent
    /\ SetCartItems(UpdateQuantityItems(cartItems, id, quantity))
    /\ lastOp' = "updateQuantity"
    /\ UNCHANGED firstAdded

updateQuantity(id, quantity) ==
    /\ CanHandleEvent
    /\ IF quantity < 1
       THEN /\ UNCHANGED <<cartItems, cartCount, cartSubtotal, shipping, premiumPackPrice,
                           storage, pending, pc, persisted, firstAdded>>
            /\ lastOp' = "updateQuantityIgnored"
       ELSE /\ SetCartItems(UpdateQuantityItems(cartItems, id, quantity))
            /\ lastOp' = "updateQuantity"
            /\ UNCHANGED firstAdded

togglePremiumPackaging(id) ==
    /\ CanHandleEvent
    /\ SetCartItems(TogglePremiumItems(cartItems, id))
    /\ lastOp' = "togglePremiumPackaging"
    /\ UNCHANGED firstAdded

removeFromCart(id) ==
    /\ CanHandleEvent
    /\ SetCartItems(RemoveItems(cartItems, id))
    /\ lastOp' = "removeFromCart"
    /\ firstAdded' = Without(firstAdded, id)

clearCart ==
    /\ CanHandleEvent
    /\ SetCartItems(<<>>)
    /\ lastOp' = "clearCart"
    /\ firstAdded' = <<>>

\* updateShipping that writes the value to both pricing parameters
updateShippingAndPremium(newShippingPrice) ==
    /\ pc = "idle"
    /\ shipping' = newShippingPrice
    /\ premiumPackPrice' = newShippingPrice
    /\ UNCHANGED <<cartItems, cartCount, cartSubtotal, storage, pending, pc, history>>

updateShipping(newShippingPrice) ==
    /\ pc = "idle"
    /\ shipping' = newShippingPrice
    /\ UNCHANGED <<cartItems, cartCount, cartSubtotal, premiumPackPrice, storage,
                   pending, pc, history>>

updatePremiumPackPrice(newPremiumPackPrice) ==
    /\ pc = "idle"
    /\ premiumPackPrice' = newPremiumPackPrice
    /\ UNCHANGED <<cartItems, cartCount, cartSubtotal, shipping, storage,
                   pending, pc, history>>

\* a new session: the page is loaded again and CartProvider is constructed
\* anew; only localStorage survives
CartProvider ==
    /\ pc \in {"idle", "crashed"}
    /\ cartItems' = <<>>
    /\ cartCount' = 0
    /\ cartSubtotal' = 0
    /\ shipping' = DefaultShipping
    /\ premiumPackPrice' = DefaultPremiumPackPrice
    /\ pending' = NoPending
    /\ pc' = "loadEffect"
    /\ persisted' = [valid |-> TRUE, entry |-> storage]
    /\ lastOp' = NoOp
    /\ UNCHANGED <<storage, firstAdded>>

AddToCartStep == \E card \in Cards : addToCart(card)
UpdateQuantityStep == \E id \in CardIds, quantity \in QuantityArgs : updateQuantity(id, quantity)
TogglePremiumStep == \E id \in CardIds : togglePremiumPackaging(id)
RemoveFromCartStep == \E id \in CardIds : removeFromCart(id)
UpdateShippingStep == \E v \in ShippingArgs : updateShipping(v)
UpdatePremiumPackPriceStep == \E v \in PremiumPackArgs : updatePremiumPackPrice(v)

\* the store driven by any caller; no view that fetches is mounted
Next ==
    \/ LoadEffect /\ UNCHANGED <<views, tabs>>
    \/ SaveEffect /\ UNCHANGED <<views, tabs>>
    \/ Render /\ UNCHANGED <<views, tabs>>
    \/ AddToCartStep /\ UNCHANGED <<views, tabs>>
    \/ UpdateQuantityStep /\ UNCHANGED <<views, tabs>>
    \/ TogglePremiumStep /\ UNCHANGED <<views, tabs>>
    \/ RemoveFromCartStep /\ UNCHANGED <<views, tabs>>
    \/ clearCart /\ UNCHANGED <<views, tabs>>
    \/ UpdateShippingStep /\ UNCHANGED <<views, tabs>>
    \/ UpdatePremiumPackPriceStep /\ UNCHANGED <<views, tabs>>
    \/ CartProvider /\ UNCHANGED <<views, tabs>>

Spec == Init /\ [][Next]_vars

\* ---- requests -------------------------------------------------------------
\* a request in flight: `card` and `price` are the arguments of a price update,
\* `unselected` is !selectedShippingOption as the effect
\* closure of the cart view that sent the request sees it (the handler of the
\* response reads nothing else of the captured value), `live` tells whether
\* the view that issued the request is still mounted
Request(api, view, unselected) ==
    [api |-> api, view |-> view, unselected |-> unselected, live |-> TRUE,
     card |-> NoCard, price |-> NoPrice]

\* cardsApi.updateCardPrice(selectedCard._id, parseFloat(newCardPrice)) : the
\* handler of the response reads selectedCard and newCardPrice as they were
\* when the button was clicked
PriceUpdate(card, price) ==
    [Request("updateCardPrice", "CardSearch", TRUE) EXCEPT !.card = card, !.price = price]

PricingFetch(selected) == Request("getPricingSettings", "Cart", selected = NoSelection)

\* what every handler of a response does to the requests and the history
Completes(request, ok, issued) ==
    /\ fetching' = (fetching \ {request}) \cup issued
    /\ lastFetch' = [api |-> request.api, view |-> request.view, ok |-> ok,
                     live |-> request.live]

Awaits(api, view) ==
    {request \in fetching : request.api = api /\ request.view = view}

\* ---- the cart view -------------------------------------------------------
\* the shipping amount the cart view shows
getSelectedShippingPrice ==
    IF selectedShippingOption = NoSelection \/ Len(shippingOptions) = 0
    THEN shipping
    ELSE LET k == FindOption(shippingOptions, selectedShippingOption)
         IN  IF k = 0 THEN shipping ELSE shippingOptions[k].price

\* what the cart view shows in place of the shipping selector
ShippingMethod ==
    IF loadingPricing THEN "Loading shipping options..."
    ELSE IF Len(shippingOptions) > 0 THEN "select"
    ELSE "No shipping options available"

\* The fetch effect of the cart view depends on updatePremiumPackPrice and
\* updateShipping, which are new functions at every render of the provider:
\* when the provider has rendered, the mounted cart view runs the effect again.
CartRenders(rendered) ==
    IF route = "/cart" /\ rendered
    THEN /\ fetching' = fetching \cup {PricingFetch(selectedShippingOption)}
         /\ loadingPricing' = TRUE
         /\ UNCHANGED <<route, viewPremiumPackPrice, shippingOptions,
                        selectedShippingOption, displayCard, adminControls,
                        cardSearch, services, lastFetch>>
    ELSE UNCHANGED views

\* the response of a pricing request arrives with the settings of the service
FetchPricingSucceeds(request) ==
    /\ request \in Awaits("getPricingSettings", "Cart")
    /\ pc = "idle"
    /\ LET data == pricingSettings
           hasPrice == data.premiumPackPrice # NoPrice /\ data.premiumPackPrice # 0
           options == ShippingOptionsOf(data)
           setsDefault == /\ data.hasShippingPrices
                          /\ Len(options) > 0
                          /\ request.unselected
           newPremium == IF hasPrice THEN data.premiumPackPrice ELSE premiumPackPrice
           newShipping == IF setsDefault THEN options[1].price ELSE shipping
           newSelected == IF request.live /\ setsDefault
                          THEN options[1].id ELSE selectedShippingOption
           rendered == newPremium # premiumPackPrice \/ newShipping # shipping
       IN  /\ premiumPackPrice' = newPremium
           /\ shipping' = newShipping
           /\ viewPremiumPackPrice' = IF request.live /\ hasPrice
                                      THEN data.premiumPackPrice ELSE viewPremiumPackPrice
           /\ shippingOptions' = IF request.live /\ data.hasShippingPrices
                                 THEN options ELSE shippingOptions
           /\ selectedShippingOption' = newSelected
           /\ loadingPricing' = IF route = "/cart" /\ rendered THEN TRUE
                                 ELSE IF request.live THEN FALSE ELSE loadingPricing
           /\ Completes(request, TRUE, IF route = "/cart" /\ rendered
                                       THEN {PricingFetch(newSelected)} ELSE {})
    /\ UNCHANGED <<cartItems, cartCount, cartSubtotal, storage, pending, pc, history,
                   route, displayCard, adminControls, cardSearch, services>>

\* a catch that falls back to the default pricing parameters
FetchPricingFailsResets(request) ==
    /\ request \in Awaits("getPricingSettings", "Cart")
    /\ shipping' = DefaultShipping
    /\ premiumPackPrice' = DefaultPremiumPackPrice
    /\ loadingPricing' = IF request.live THEN FALSE ELSE loadingPricing
    /\ Completes(request, FALSE, {})
    /\ UNCHANGED <<cartItems, cartCount, cartSubtotal, storage, pending, pc, history,
                   route, viewPremiumPackPrice, shippingOptions, selectedShippingOption,
                   displayCard, adminControls, cardSearch, services>>

\* the request fails: catch logs the error, finally ends the loading state
FetchPricingFails(request) ==
    /\ request \in Awaits("getPricingSettings", "Cart")
    /\ loadingPricing' = IF request.live THEN FALSE ELSE loadingPricing
    /\ Completes(request, FALSE, {})
    /\ UNCHANGED <<storeVars, route, viewPremiumPackPrice, shippingOptions,
                   selectedShippingOption, displayCard, adminControls, cardSearch,
                   services>>

handleShippingOptionChange(optionId) ==
    /\ route = "/cart"
    /\ pc = "idle"
    /\ cartItems # <<>>
    /\ ShippingMethod = "select"
    /\ FindOption(shippingOptions, optionId) # 0
    /\ LET option == shippingOptions[FindOption(shippingOptions, optionId)]
       IN  /\ selectedShippingOption' = optionId
           /\ shipping' = option.price
           /\ IF option.price # shipping
              THEN /\ fetching' = fetching \cup {PricingFetch(optionId)}
                   /\ loadingPricing' = TRUE
              ELSE UNCHANGED <<fetching, loadingPricing>>
    /\ UNCHANGED <<cartItems, cartCount, cartSubtotal, premiumPackPrice, storage,
                   pending, pc, history, route, viewPremiumPackPrice, shippingOptions,
                   displayCard, adminControls, cardSearch, services, lastFetch>>

\* the buttons of one line item in the cart view
DecreaseQuantity ==
    /\ route = "/cart"
    /\ \E i \in 1..Len(cartItems) :
          /\ updateQuantity(cartItems[i].id, cartItems[i].quantity - 1)
          /\ CartRenders(cartItems[i].quantity - 1 >= 1)

IncreaseQuantity ==
    /\ route = "/cart"
    /\ \E i \in 1..Len(cartItems) :
          /\ cartItems[i].quantity < MaxQty
          /\ updateQuantity(cartItems[i].id, cartItems[i].quantity + 1)
          /\ CartRenders(TRUE)

PremiumPackagingChange ==
    /\ route = "/cart"
    /\ \E i \in 1..Len(cartItems) :
          togglePremiumPackaging(cartItems[i].id) /\ CartRenders(TRUE)

RemoveClick ==
    /\ route = "/cart"
    /\ \E i \in 1..Len(cartItems) :
          removeFromCart(cartItems[i].id) /\ CartRenders(TRUE)

ClearCartClick ==
    /\ route = "/cart"
    /\ cartItems # <<>>
    /\ clearCart
    /\ CartRenders(TRUE)

\* ---- the card list ---------------------------------------------------------
\* The effects that DisplayCard runs after its first render set filteredCards
\* to a copy of the empty cards and currentPage to 1, the values they have:
\* the view is taken to be idle once it is mounted.

\* setCards(data), setFilteredCards(data); the render that commits them changed
\* cards, so the filter effect runs after it
FetchCardsSucceeds(request) ==
    /\ request \in Awaits("getAllCards", "DisplayCard")
    /\ IF request.live
       THEN /\ cards' = catalog
            /\ filteredCards' = catalog
            /\ loading' = FALSE
            /\ pagePc' = "filterEffect"
       ELSE UNCHANGED <<cards, filteredCards, loading, pagePc>>
    /\ Completes(request, TRUE, {})
    /\ UNCHANGED <<storeVars, route, cartView, error, cardsPerPage, currentPage, selectedSet,
                   selectedRarity, selectedColor, adminControls, cardSearch, services>>

FetchCardsFails(request) ==
    /\ request \in Awaits("getAllCards", "DisplayCard")
    /\ IF request.live
       THEN error' = ServerError /\ loading' = FALSE
       ELSE UNCHANGED <<error, loading>>
    /\ Completes(request, FALSE, {})
    /\ UNCHANGED <<storeVars, route, cartView, cards, pagination, adminControls, cardSearch,
                   services>>

\* the pagination values that DisplayCard computes in every render
indexOfLastCard == currentPage * cardsPerPage
indexOfFirstCard == indexOfLastCard - cardsPerPage
\* filteredCards.slice(indexOfFirstCard, indexOfLastCard)
currentCards ==
    SubSeq(filteredCards, indexOfFirstCard + 1,
           IF indexOfLastCard < Len(filteredCards) THEN indexOfLastCard ELSE Len(filteredCards))
\* Math.ceil(filteredCards.length / cardsPerPage)
totalPages == (Len(filteredCards) + cardsPerPage - 1) \div cardsPerPage

\* what DisplayCard renders
DisplayCardShows ==
    IF loading THEN "Loading cards..."
    ELSE IF error # NoError THEN "Error loading cards"
    ELSE IF Len(cards) = 0 THEN "No cards found"
    ELSE "cards"

\* the button "Add To Cart" of one card of the list (the toast it shows for 2
\* seconds is left out)
handleAddToCart ==
    /\ route = "/cards"
    /\ DisplayCardShows = "cards"
    /\ \E i \in 1..Len(currentCards) : addToCart(currentCards[i])
    /\ UNCHANGED views

\* ---- filters and pages of the card list ------------------------------------
\* Number(selectedSet) and its inverse, set.toString()
NumberOf(text) == CASE text = "1" -> 1 [] text = "2" -> 2
SetName(number) == CASE number = 1 -> "1" [] number = 2 -> "2"

\* the values the three selects offer; the view computes them once, from the
\* cards it fetched
sets == {SetName(cards[i].Set_Num) : i \in 1..Len(cards)}
rarities == {cards[i].Rarity : i \in 1..Len(cards)}
colors == {cards[i].Color : i \in 1..Len(cards)}

\* the result of the filter effect; Set_Num is a number in the catalog
FilterCards ==
    SelectSeq(cards, LAMBDA card :
        /\ selectedSet # NoFilter => card.Set_Num = NumberOf(selectedSet)
        /\ selectedRarity # NoFilter => card.Rarity = selectedRarity
        /\ selectedColor # NoFilter => card.Color = selectedColor)

\* what of the store and of the other views no step of the card list changes
besideDisplayCard == <<storeVars, route, cartView, adminControls, cardSearch, services,
                       fetching, lastFetch>>

\* the controls of the card list are rendered
ListShown == route = "/cards" /\ DisplayCardShows = "cards"
PaginationShown == ListShown /\ Len(filteredCards) > 0

\* setCurrentPage(page) in a click handler.  The handler can run when the view
\* is idle and also after an effect has queued its updates, before the render
\* that commits them: that render is a later task.  The updates of the effect
\* are then committed first and the update of the handler, which was computed
\* from the values on the screen, after them.
SetCurrentPage(page) ==
    /\ pagePc \in {"idle", "filterRender", "pageRender"}
    /\ currentPage' = page
    /\ filteredCards' = IF pagePc = "filterRender" THEN FilterCards ELSE filteredCards
    /\ pagePc' = "idle"
    /\ UNCHANGED <<cards, loading, error, cardsPerPage, selectedSet, selectedRarity,
                   selectedColor, besideDisplayCard, tabs>>

\* Pagination.Next, disabled on the last page
handleNextPage ==
    /\ PaginationShown
    /\ currentPage # totalPages
    /\ currentPage < totalPages
    /\ SetCurrentPage(currentPage + 1)

\* Pagination.Prev, disabled on the first page
handlePrevPage ==
    /\ PaginationShown
    /\ currentPage # 1
    /\ currentPage > 1
    /\ SetCurrentPage(currentPage - 1)

\* the items of the next and of the last page, rendered while
\* currentPage < totalPages
PageItemClick(page) ==
    /\ PaginationShown
    /\ currentPage < totalPages
    /\ page \in {currentPage + 1, totalPages}
    /\ SetCurrentPage(page)

\* a button "Cards per page"; setState with the value the state has renders
\* nothing
handleCardsPerPageChange(count) ==
    /\ ListShown
    /\ pagePc = "idle"
    /\ count # cardsPerPage
    /\ cardsPerPage' = count
    /\ pagePc' = "pageEffect"
    /\ UNCHANGED <<cards, loading, error, filteredCards, currentPage, selectedSet,
                   selectedRarity, selectedColor, besideDisplayCard, tabs>>

\* onChange of the three selects of the filter panel
SelectSet(value) ==
    /\ ListShown
    /\ pagePc = "idle"
    /\ value \in {NoFilter} \cup sets
    /\ value # selectedSet
    /\ selectedSet' = value
    /\ pagePc' = "filterEffect"
    /\ UNCHANGED <<cards, loading, error, filteredCards, cardsPerPage, currentPage,
                   selectedRarity, selectedColor, besideDisplayCard, tabs>>

SelectRarity(value) ==
    /\ ListShown
    /\ pagePc = "idle"
    /\ value \in {NoFilter} \cup rarities
    /\ value # selectedRarity
    /\ selectedRarity' = value
    /\ pagePc' = "filterEffect"
    /\ UNCHANGED <<cards, loading, error, filteredCards, cardsPerPage, currentPage,
                   selectedSet, selectedColor, besideDisplayCard, tabs>>

SelectColor(value) ==
    /\ ListShown
    /\ pagePc = "idle"
    /\ value \in {NoFilter} \cup colors
    /\ value # selectedColor
    /\ selectedColor' = value
    /\ pagePc' = "filterEffect"
    /\ UNCHANGED <<cards, loading, error, filteredCards, cardsPerPage, currentPage,
                   selectedSet, selectedRarity, besideDisplayCard, tabs>>

\* the buttons "Clear Filters" and "Clear all filters"
clearFilters ==
    /\ ListShown
    /\ pagePc = "idle"
    /\ <<selectedSet, selectedRarity, selectedColor>> # <<NoFilter, NoFilter, NoFilter>>
    /\ selectedSet' = NoFilter
    /\ selectedRarity' = NoFilter
    /\ selectedColor' = NoFilter
    /\ pagePc' = "filterEffect"
    /\ UNCHANGED <<cards, loading, error, filteredCards, cardsPerPage, currentPage,
                   besideDisplayCard, tabs>>

\* useEffect(..., [selectedSet, selectedRarity, selectedColor, cards]) :
\* queues setFilteredCards(result) and setCurrentPage(1)
FilterEffect ==
    /\ pagePc = "filterEffect"
    /\ pagePc' = "filterRender"
    /\ UNCHANGED <<cards, loading, error, filteredCards, cardsPerPage, currentPage,
                   selectedSet, selectedRarity, selectedColor, besideDisplayCard, tabs>>

\* useEffect(..., [cardsPerPage]) : queues setCurrentPage(1)
PageResetEffect ==
    /\ pagePc = "pageEffect"
    /\ pagePc' = "pageRender"
    /\ UNCHANGED <<cards, loading, error, filteredCards, cardsPerPage, currentPage,
                   selectedSet, selectedRarity, selectedColor, besideDisplayCard, tabs>>

\* the render that commits the updates an effect queued
PageRender ==
    /\ pagePc \in {"filterRender", "pageRender"}
    /\ filteredCards' = IF pagePc = "filterRender" THEN FilterCards ELSE filteredCards
    /\ currentPage' = 1
    /\ pagePc' = "idle"
    /\ UNCHANGED <<cards, loading, error, cardsPerPage, selectedSet, selectedRarity,
                   selectedColor, besideDisplayCard, tabs>>

\* ---- the admin view --------------------------------------------------------
FetchSettingsSucceeds(request) ==
    /\ request \in Awaits("getPricingSettings", "AdminControls")
    /\ Completes(request, TRUE, {})
    /\ UNCHANGED <<storeVars, route, cartView, displayCard, adminControls, cardSearch,
                   services>>

FetchSettingsFails(request) ==
    /\ request \in Awaits("getPricingSettings", "AdminControls")
    /\ saveStatus' = IF request.live THEN Status("Failed to load settings", "danger")
                     ELSE saveStatus
    /\ Completes(request, FALSE, {})
    /\ UNCHANGED <<storeVars, route, cartView, displayCard, hideTimer, cardSearch,
                   services>>

\* a button of the admin view or of its card search sends a request
Sends(request) ==
    /\ route = "/admin"
    /\ Cardinality({other \in fetching : other.view = request.view}) < MaxInFlight
    /\ fetching' = fetching \cup {request}
    /\ UNCHANGED <<storeVars, route, cartView, displayCard, adminControls,
                   searchResults, selectedCard, newCardPrice, services, lastFetch>>

savePricingSettings ==
    /\ Sends(Request("updatePricingSettings", "AdminControls", TRUE))
    /\ UNCHANGED statusMessage

\* the service stores the settings of the form, the view shows the success for
\* 3 seconds
SaveSettingsSucceeds(request, settings) ==
    /\ request \in Awaits("updatePricingSettings", "AdminControls")
    /\ pricingSettings' = settings
    /\ IF request.live
       THEN /\ saveStatus' = Status("All pricing settings saved successfully", "success")
            /\ hideTimer' = TRUE
       ELSE UNCHANGED <<saveStatus, hideTimer>>
    /\ Completes(request, TRUE, {})
    /\ UNCHANGED <<storeVars, route, cartView, displayCard, cardSearch, catalog>>

SaveSettingsFails(request) ==
    /\ request \in Awaits("updatePricingSettings", "AdminControls")
    /\ saveStatus' = IF request.live THEN Status("Failed to save settings", "danger")
                     ELSE saveStatus
    /\ Completes(request, FALSE, {})
    /\ UNCHANGED <<storeVars, route, cartView, displayCard, hideTimer, cardSearch,
                   services>>

\* setTimeout(() => setSaveStatus({show: false, ...}), 3000)
HideTimerFires ==
    /\ hideTimer
    /\ hideTimer' = FALSE
    /\ saveStatus' = NoStatus("success")
    /\ UNCHANGED <<storeVars, route, cartView, displayCard, cardSearch, services,
                   fetching, lastFetch>>

applyDefaultRarityPricing ==
    /\ Sends(Request("applyRarityPricing", "AdminControls", TRUE))
    /\ UNCHANGED statusMessage

ApplyRarityPricingSucceeds(request) ==
    /\ request \in Awaits("applyRarityPricing", "AdminControls")
    /\ catalog' = [i \in 1..Len(catalog) |-> [catalog[i] EXCEPT !.Price = RarityPrice]]
    /\ saveStatus' = IF request.live
                     THEN Status("Default rarity prices applied to all cards", "success")
                     ELSE saveStatus
    /\ Completes(request, TRUE, {})
    /\ UNCHANGED <<storeVars, route, cartView, displayCard, hideTimer, cardSearch,
                   pricingSettings>>

ApplyRarityPricingFails(request) ==
    /\ request \in Awaits("applyRarityPricing", "AdminControls")
    /\ saveStatus' = IF request.live THEN Status("Failed to apply rarity pricing", "danger")
                     ELSE saveStatus
    /\ Completes(request, FALSE, {})
    /\ UNCHANGED <<storeVars, route, cartView, displayCard, hideTimer, cardSearch,
                   services>>

\* ---- the card search of the admin view -------------------------------------
\* the search form is submitted with a query that is not blank
handleCardSearch ==
    /\ Sends(Request("searchCards", "CardSearch", TRUE))
    /\ statusMessage' = NoStatus("info")

\* the service answers with the cards that match the query: none or all
SearchSucceeds(request, data) ==
    /\ request \in Awaits("searchCards", "CardSearch")
    /\ IF request.live
       THEN /\ searchResults' = data
            /\ statusMessage' = IF Len(data) = 0
                                THEN Status("No cards found matching your search criteria.", "info")
                                ELSE statusMessage
       ELSE UNCHANGED <<searchResults, statusMessage>>
    /\ Completes(request, TRUE, {})
    /\ UNCHANGED <<storeVars, route, cartView, displayCard, adminControls, selectedCard,
                   newCardPrice, services>>

SearchFails(request) ==
    /\ request \in Awaits("searchCards", "CardSearch")
    /\ statusMessage' = IF request.live THEN Status("Search failed", "danger")
                        ELSE statusMessage
    /\ Completes(request, FALSE, {})
    /\ UNCHANGED <<storeVars, route, cartView, displayCard, adminControls, searchResults,
                   selectedCard, newCardPrice, services>>

\* setSelectedCard(card), setNewCardPrice(card.Price || '')
handleCardSelect(card) ==
    /\ route = "/admin"
    /\ selectedCard' = card._id
    /\ newCardPrice' = IF card.Price = NoPrice \/ card.Price = 0
                       THEN EmptyText ELSE FieldText(card.Price)
    /\ UNCHANGED <<storeVars, route, cartView, displayCard, adminControls, searchResults,
                   statusMessage, services, fetching, lastFetch>>

\* onChange of the price field, rendered while a card is selected
NewCardPriceChange(text) ==
    /\ route = "/admin"
    /\ selectedCard # NoCard
    /\ text # newCardPrice
    /\ newCardPrice' = text
    /\ UNCHANGED <<storeVars, route, cartView, displayCard, adminControls, searchResults,
                   selectedCard, statusMessage, services, fetching, lastFetch>>

\* the button "Update Price", rendered while a card is selected: the handler
\* returns at once when no card is selected or the price field is empty
updateCardPrice ==
    /\ route = "/admin"
    /\ selectedCard # NoCard
    /\ IF selectedCard = NoCard \/ newCardPrice = EmptyText
       THEN /\ lastFetch' = NotSent("CardSearch")
            /\ UNCHANGED <<storeVars, route, cartView, displayCard, adminControls,
                           cardSearch, services, fetching>>
       ELSE /\ Sends(PriceUpdate(selectedCard, parseFloat(newCardPrice)))
            /\ UNCHANGED statusMessage

\* an update that gives every search result the new price
UpdateCardPriceSucceedsAll(request) ==
    /\ request \in Awaits("updateCardPrice", "CardSearch")
    /\ catalog' = [i \in 1..Len(catalog) |->
                     IF catalog[i]._id = request.card
                     THEN [catalog[i] EXCEPT !.Price = request.price] ELSE catalog[i]]
    /\ IF request.live
       THEN /\ statusMessage' = Status("Price updated for card", "success")
            /\ searchResults' = [i \in 1..Len(searchResults) |->
                                   [searchResults[i] EXCEPT !.Price = request.price]]
       ELSE UNCHANGED <<statusMessage, searchResults>>
    /\ Completes(request, TRUE, {})
    /\ UNCHANGED <<storeVars, route, cartView, displayCard, adminControls, selectedCard,
                   newCardPrice, pricingSettings>>

\* the service stores the price that was sent, the view puts it into the results
UpdateCardPriceSucceeds(request) ==
    /\ request \in Awaits("updateCardPrice", "CardSearch")
    /\ catalog' = [i \in 1..Len(catalog) |->
                     IF catalog[i]._id = request.card
                     THEN [catalog[i] EXCEPT !.Price = request.price] ELSE catalog[i]]
    /\ IF request.live
       THEN /\ statusMessage' = Status("Price updated for card", "success")
            /\ searchResults' = [i \in 1..Len(searchResults) |->
                                   IF searchResults[i]._id = request.card
                                   THEN [searchResults[i] EXCEPT !.Price = request.price]
                                   ELSE searchResults[i]]
       ELSE UNCHANGED <<statusMessage, searchResults>>
    /\ Completes(request, TRUE, {})
    /\ UNCHANGED <<storeVars, route, cartView, displayCard, adminControls, selectedCard,
                   newCardPrice, pricingSettings>>

UpdateCardPriceFails(request) ==
    /\ request \in Awaits("updateCardPrice", "CardSearch")
    /\ statusMessage' = IF request.live THEN Status("Failed to update price", "danger")
                        ELSE statusMessage
    /\ Completes(request, FALSE, {})
    /\ UNCHANGED <<storeVars, route, cartView, displayCard, adminControls, searchResults,
                   selectedCard, newCardPrice, services>>

\* ---- routes ----------------------------------------------------------------
Routes == {"/cards", "/cart", "/admin"}

\* the links the model follows: between the card list and the cart; the admin
\* view is opened by loading the page at its route
Linked(from, to) == from # to /\ from # "/admin" /\ to # "/admin"

\* the requests a view sends when it mounts
MountFetches(to) ==
    CASE to = "/cart" -> {PricingFetch(NoSelection)}
      [] to = "/cards" -> {Request("getAllCards", "DisplayCard", TRUE)}
      [] to = "/admin" -> {Request("getPricingSettings", "AdminControls", TRUE)}

\* a link of the navigation bar: the mounted view is unmounted and its state
\* is gone; the requests of the cart view stay in flight, since their handler
\* writes to the store, the responses to the other requests find no state to
\* write to; the view of the new route mounts
Navigate(to) ==
    /\ pc \in {"idle", "render"} /\ ~pending.hasItems
    /\ Linked(route, to)
    /\ route' = to
    /\ viewPremiumPackPrice' = DefaultPremiumPackPrice
    /\ shippingOptions' = <<>>
    /\ selectedShippingOption' = NoSelection
    /\ loadingPricing' = TRUE
    /\ cards' = <<>>
    /\ loading' = TRUE
    /\ error' = NoError
    /\ filteredCards' = <<>>
    /\ cardsPerPage' = DefaultCardsPerPage
    /\ currentPage' = 1
    /\ selectedSet' = NoFilter
    /\ selectedRarity' = NoFilter
    /\ selectedColor' = NoFilter
    /\ pagePc' = "idle"
    /\ saveStatus' = NoStatus("success")
    /\ hideTimer' = FALSE
    /\ searchResults' = <<>>
    /\ selectedCard' = NoCard
    /\ newCardPrice' = EmptyText
    /\ statusMessage' = NoStatus("info")
    /\ fetching' = {[request EXCEPT !.live = FALSE] : request \in Awaits("getPricingSettings", "Cart")}
                       \cup MountFetches(to)
    /\ UNCHANGED <<storeVars, services, lastFetch>>

\* an admin saves other pricing settings from another browser
PricingSettingsChange(settings) ==
    /\ settings # pricingSettings
    /\ pricingSettings' = settings
    /\ UNCHANGED <<storeVars, route, cartView, displayCard, adminControls, cardSearch,
                   catalog, fetching, lastFetch>>

\* a cart of an earlier session
StoredCart ==
    JSONstringify(<<[id |-> 1, name |-> "Elsa", image |-> "elsa.png", price |-> 499,
                     quantity |-> 1, premiumPackaging |-> FALSE]>>)

\* the page is loaded at one of the routes
ViewInit ==
    /\ cartItems = <<>>
    /\ cartCount = 0
    /\ cartSubtotal = 0
    /\ shipping = DefaultShipping
    /\ premiumPackPrice = DefaultPremiumPackPrice
    /\ storage \in {StorageEntry("absent", <<>>), StoredCart}
    /\ pending = NoPending
    /\ pc = "loadEffect"
    /\ persisted = [valid |-> TRUE, entry |-> storage]
    /\ lastOp = NoOp
    /\ firstAdded = <<>>
    /\ route \in Routes
    /\ viewPremiumPackPrice = DefaultPremiumPackPrice
    /\ shippingOptions = <<>>
    /\ selectedShippingOption = NoSelection
    /\ loadingPricing = TRUE
    /\ cards = <<>>
    /\ loading = TRUE
    /\ error = NoError
    /\ filteredCards = <<>>
    /\ cardsPerPage = DefaultCardsPerPage
    /\ currentPage = 1
    /\ selectedSet = NoFilter
    /\ selectedRarity = NoFilter
    /\ selectedColor = NoFilter
    /\ pagePc = "idle"
    /\ saveStatus = NoStatus("success")
    /\ hideTimer = FALSE
    /\ searchResults = <<>>
    /\ selectedCard = NoCard
    /\ newCardPrice = EmptyText
    /\ statusMessage = NoStatus("info")
    /\ pricingSettings \in PricingSettings
    /\ catalog = InitialCatalog
    /\ fetching = MountFetches(route)
    /\ lastFetch = NoFetch
    /\ otherItems = <<>>
    /\ otherPending = NoItems
    /\ otherPc = "closed"
    /\ lastWriter = 0

ViewNext ==
    \/ LoadEffect /\ UNCHANGED <<views, tabs>>
    \/ SaveEffect /\ UNCHANGED <<views, tabs>>
    \/ /\ Render
       /\ CartRenders(\/ pending.hasItems
                      \/ cartCount' # cartCount
                      \/ cartSubtotal' # cartSubtotal)
       /\ UNCHANGED tabs
    \/ (\E request \in fetching : FetchPricingSucceeds(request)) /\ UNCHANGED tabs
    \/ (\E request \in fetching : FetchPricingFails(request)) /\ UNCHANGED tabs
    \/ /\ \E i \in 1..Len(shippingOptions) :
             handleShippingOptionChange(shippingOptions[i].id)
       /\ UNCHANGED tabs
    \/ DecreaseQuantity /\ UNCHANGED tabs
    \/ IncreaseQuantity /\ UNCHANGED tabs
    \/ PremiumPackagingChange /\ UNCHANGED tabs
    \/ RemoveClick /\ UNCHANGED tabs
    \/ ClearCartClick /\ UNCHANGED tabs
    \/ (\E request \in fetching : FetchCardsSucceeds(request)) /\ UNCHANGED tabs
    \/ (\E request \in fetching : FetchCardsFails(request)) /\ UNCHANGED tabs
    \/ handleAddToCart /\ UNCHANGED tabs
    \/ (\E request \in fetching : FetchSettingsSucceeds(request)) /\ UNCHANGED tabs
    \/ (\E request \in fetching : FetchSettingsFails(request)) /\ UNCHANGED tabs
    \/ savePricingSettings /\ UNCHANGED tabs
    \/ /\ \E request \in fetching, settings \in {InitialSettings, ChangedSettings} :
             SaveSettingsSucceeds(request, settings)
       /\ UNCHANGED tabs
    \/ (\E request \in fetching : SaveSettingsFails(request)) /\ UNCHANGED tabs
    \/ HideTimerFires /\ UNCHANGED tabs
    \/ applyDefaultRarityPricing /\ UNCHANGED tabs
    \/ (\E request \in fetching : ApplyRarityPricingSucceeds(request)) /\ UNCHANGED tabs
    \/ (\E request \in fetching : ApplyRarityPricingFails(request)) /\ UNCHANGED tabs
    \/ handleCardSearch /\ UNCHANGED tabs
    \/ /\ \E request \in fetching, data \in {<<>>, catalog} : SearchSucceeds(request, data)
       /\ UNCHANGED tabs
    \/ (\E request \in fetching : SearchFails(request)) /\ UNCHANGED tabs
    \/ (\E i \in 1..Len(searchResults) : handleCardSelect(searchResults[i])) /\ UNCHANGED tabs
    \/ updateCardPrice /\ UNCHANGED tabs
    \/ (\E request \in fetching : UpdateCardPriceSucceeds(request)) /\ UNCHANGED tabs
    \/ (\E request \in fetching : UpdateCardPriceFails(request)) /\ UNCHANGED tabs
    \/ (\E to \in Routes : Navigate(to)) /\ UNCHANGED tabs
    \/ (\E settings \in PricingSettings : PricingSettingsChange(settings)) /\ UNCHANGED tabs

ViewSpec == ViewInit /\ [][ViewNext]_vars

\* ---- the cart view with the settings an admin can save ------------------------
\* The inputs of the admin view keep parseFloat(e.target.value) || 0, which is
\* negative for a negative entry (min="0" is not checked, the button is no
\* submit button), and the cart view takes every premiumPackPrice that is
\* truthy and every shipping price as parseFloat returns it.
NegativeSettings ==
    [premiumPackPrice |-> -500, hasShippingPrices |-> TRUE,
     shippingPrices |-> <<[region |-> "GTA", price |-> -2000],
                          [region |-> "Canada Wide", price |-> 1299]>>]
SavedSettings == {InitialSettings, NegativeSettings}

\* the page is loaded at the cart route, with a cart of an earlier session
CartInit ==
    /\ cartItems = <<>>
    /\ cartCount = 0
    /\ cartSubtotal = 0
    /\ shipping = DefaultShipping
    /\ premiumPackPrice = DefaultPremiumPackPrice
    /\ storage = StoredCart
    /\ pending = NoPending
    /\ pc = "loadEffect"
    /\ persisted = [valid |-> TRUE, entry |-> storage]
    /\ lastOp = NoOp
    /\ firstAdded = <<>>
    /\ route = "/cart"
    /\ viewPremiumPackPrice = DefaultPremiumPackPrice
    /\ shippingOptions = <<>>
    /\ selectedShippingOption = NoSelection
    /\ loadingPricing = TRUE
    /\ cards = <<>>
    /\ loading = TRUE
    /\ error = NoError
    /\ filteredCards = <<>>
    /\ cardsPerPage = DefaultCardsPerPage
    /\ currentPage = 1
    /\ selectedSet = NoFilter
    /\ selectedRarity = NoFilter
    /\ selectedColor = NoFilter
    /\ pagePc = "idle"
    /\ saveStatus = NoStatus("success")
    /\ hideTimer = FALSE
    /\ searchResults = <<>>
    /\ selectedCard = NoCard
    /\ newCardPrice = EmptyText
    /\ statusMessage = NoStatus("info")
    /\ pricingSettings \in SavedSettings
    /\ catalog = InitialCatalog
    /\ fetching = MountFetches(route)
    /\ lastFetch = NoFetch
    /\ otherItems = <<>>
    /\ otherPending = NoItems
    /\ otherPc = "closed"
    /\ lastWriter = 0

CartNext ==
    \/ LoadEffect /\ UNCHANGED <<views, tabs>>
    \/ SaveEffect /\ UNCHANGED <<views, tabs>>
    \/ /\ Render
       /\ CartRenders(\/ pending.hasItems
                      \/ cartCount' # cartCount
                      \/ cartSubtotal' # cartSubtotal)
       /\ UNCHANGED tabs
    \/ (\E request \in fetching : FetchPricingSucceeds(request)) /\ UNCHANGED tabs
    \/ (\E request \in fetching : FetchPricingFails(request)) /\ UNCHANGED tabs
    \/ /\ \E i \in 1..Len(shippingOptions) :
             handleShippingOptionChange(shippingOptions[i].id)
       /\ UNCHANGED tabs
    \/ DecreaseQuantity /\ UNCHANGED tabs
    \/ IncreaseQuantity /\ UNCHANGED tabs
    \/ PremiumPackagingChange /\ UNCHANGED tabs
    \/ (\E settings \in SavedSettings : PricingSettingsChange(settings)) /\ UNCHANGED tabs

CartSpec == CartInit /\ [][CartNext]_vars

\* ---- the card list with a catalog of several pages --------------------------
\* the catalog: two sets, two rarities, two colors
ListedCatalog ==
    [i \in 1..NumListed |->
        [_id |-> i, Name |-> "Elsa", Image |-> "elsa.png", Price |-> 499,
         Set_Num |-> IF i <= 9 THEN 1 ELSE 2,
         Rarity |-> IF i % 2 = 1 THEN "Common" ELSE "Rare",
         Color |-> IF i % 3 = 0 THEN "Ruby" ELSE "Amber"]]

\* the page is loaded at the route of the card list
PageInit ==
    /\ cartItems = <<>>
    /\ cartCount = 0
    /\ cartSubtotal = 0
    /\ shipping = DefaultShipping
    /\ premiumPackPrice = DefaultPremiumPackPrice
    /\ storage = StorageEntry("absent", <<>>)
    /\ pending = NoPending
    /\ pc = "loadEffect"
    /\ persisted = [valid |-> TRUE, entry |-> storage]
    /\ lastOp = NoOp
    /\ firstAdded = <<>>
    /\ route = "/cards"
    /\ viewPremiumPackPrice = DefaultPremiumPackPrice
    /\ shippingOptions = <<>>
    /\ selectedShippingOption = NoSelection
    /\ loadingPricing = TRUE
    /\ cards = <<>>
    /\ loading = TRUE
    /\ error = NoError
    /\ filteredCards = <<>>
    /\ cardsPerPage = DefaultCardsPerPage
    /\ currentPage = 1
    /\ selectedSet = NoFilter
    /\ selectedRarity = NoFilter
    /\ selectedColor = NoFilter
    /\ pagePc = "idle"
    /\ saveStatus = NoStatus("success")
    /\ hideTimer = FALSE
    /\ searchResults = <<>>
    /\ selectedCard = NoCard
    /\ newCardPrice = EmptyText
    /\ statusMessage = NoStatus("info")
    /\ pricingSettings = InitialSettings
    /\ catalog = ListedCatalog
    /\ fetching = MountFetches(route)
    /\ lastFetch = NoFetch
    /\ otherItems = <<>>
    /\ otherPending = NoItems
    /\ otherPc = "closed"
    /\ lastWriter = 0

\* the card list alone; the store stays as the page load left it
PageNext ==
    \/ (\E request \in fetching : FetchCardsSucceeds(request)) /\ UNCHANGED tabs
    \/ (\E request \in fetching : FetchCardsFails(request)) /\ UNCHANGED tabs
    \/ handleNextPage
    \/ handlePrevPage
    \/ \E page \in 1..NumListed : PageItemClick(page)
    \/ \E count \in CardsPerPageOptions : handleCardsPerPageChange(count)
    \/ \E value \in {NoFilter} \cup sets : SelectSet(value)
    \/ \E value \in {NoFilter} \cup rarities : SelectRarity(value)
    \/ \E value \in {NoFilter} \cup colors : SelectColor(value)
    \/ clearFilters
    \/ FilterEffect
    \/ PageResetEffect
    \/ PageRender

PageSpec == PageInit /\ [][PageNext]_vars

\* ---- the admin view with a catalog of two cards ------------------------------
\* the second card has no price yet
AdminCatalog ==
    <<[_id |-> 1, Name |-> "Elsa", Image |-> "elsa.png", Price |-> 499],
      [_id |-> 2, Name |-> "Mickey", Image |-> "mickey.png", Price |-> NoPrice]>>

\* onClose of the alert of the admin view
DismissSaveStatus ==
    /\ route = "/admin"
    /\ saveStatus.show
    /\ saveStatus' = [saveStatus EXCEPT !.show = FALSE]
    /\ UNCHANGED <<storeVars, route, cartView, displayCard, hideTimer, cardSearch,
                   services, fetching, lastFetch>>

\* onClose of the alert of the card search
DismissStatusMessage ==
    /\ route = "/admin"
    /\ statusMessage.show
    /\ statusMessage' = [statusMessage EXCEPT !.show = FALSE]
    /\ UNCHANGED <<storeVars, route, cartView, displayCard, adminControls, searchResults,
                   selectedCard, newCardPrice, services, fetching, lastFetch>>

\* the page is loaded at the route of the admin view
AdminInit ==
    /\ cartItems = <<>>
    /\ cartCount = 0
    /\ cartSubtotal = 0
    /\ shipping = DefaultShipping
    /\ premiumPackPrice = DefaultPremiumPackPrice
    /\ storage = StorageEntry("absent", <<>>)
    /\ pending = NoPending
    /\ pc = "loadEffect"
    /\ persisted = [valid |-> TRUE, entry |-> storage]
    /\ lastOp = NoOp
    /\ firstAdded = <<>>
    /\ route = "/admin"
    /\ viewPremiumPackPrice = DefaultPremiumPackPrice
    /\ shippingOptions = <<>>
    /\ selectedShippingOption = NoSelection
    /\ loadingPricing = TRUE
    /\ cards = <<>>
    /\ loading = TRUE
    /\ error = NoError
    /\ filteredCards = <<>>
    /\ cardsPerPage = DefaultCardsPerPage
    /\ currentPage = 1
    /\ selectedSet = NoFilter
    /\ selectedRarity = NoFilter
    /\ selectedColor = NoFilter
    /\ pagePc = "idle"
    /\ saveStatus = NoStatus("success")
    /\ hideTimer = FALSE
    /\ searchResults = <<>>
    /\ selectedCard = NoCard
    /\ newCardPrice = EmptyText
    /\ statusMessage = NoStatus("info")
    /\ pricingSettings = InitialSettings
    /\ catalog = AdminCatalog
    /\ fetching = MountFetches(route)
    /\ lastFetch = NoFetch
    /\ otherItems = <<>>
    /\ otherPending = NoItems
    /\ otherPc = "closed"
    /\ lastWriter = 0

\* the controls of the admin view alone; the store stays as the page load left
\* it and nobody searches a card
AdminNext ==
    \/ (\E request \in fetching : FetchSettingsSucceeds(request)) /\ UNCHANGED tabs
    \/ (\E request \in fetching : FetchSettingsFails(request)) /\ UNCHANGED tabs
    \/ savePricingSettings /\ UNCHANGED tabs
    \/ /\ \E request \in fetching, settings \in {InitialSettings, ChangedSettings} :
             SaveSettingsSucceeds(request, settings)
       /\ UNCHANGED tabs
    \/ (\E request \in fetching : SaveSettingsFails(request)) /\ UNCHANGED tabs
    \/ HideTimerFires /\ UNCHANGED tabs
    \/ DismissSaveStatus /\ UNCHANGED tabs
    \/ applyDefaultRarityPricing /\ UNCHANGED tabs
    \/ (\E request \in fetching : ApplyRarityPricingSucceeds(request)) /\ UNCHANGED tabs
    \/ (\E request \in fetching : ApplyRarityPricingFails(request)) /\ UNCHANGED tabs

AdminSpec == AdminInit /\ [][AdminNext]_vars

\* the card search of the admin view alone, while the settings of the controls
\* arrive; a search finds no card, one card or both
SearchNext ==
    \/ (\E request \in fetching : FetchSettingsSucceeds(request)) /\ UNCHANGED tabs
    \/ handleCardSearch /\ UNCHANGED tabs
    \/ /\ \E request \in fetching,
             data \in {<<>>, catalog} \cup {<<catalog[i]>> : i \in 1..Len(catalog)} :
             SearchSucceeds(request, data)
       /\ UNCHANGED tabs
    \/ (\E request \in fetching : SearchFails(request)) /\ UNCHANGED tabs
    \/ (\E i \in 1..Len(searchResults) : handleCardSelect(searchResults[i])) /\ UNCHANGED tabs
    \/ (\E text \in TypedTexts : NewCardPriceChange(text)) /\ UNCHANGED tabs
    \/ updateCardPrice /\ UNCHANGED tabs
    \/ (\E request \in fetching : UpdateCardPriceSucceeds(request)) /\ UNCHANGED tabs
    \/ (\E request \in fetching : UpdateCardPriceFails(request)) /\ UNCHANGED tabs
    \/ DismissStatusMessage /\ UNCHANGED tabs

SearchSpec == AdminInit /\ [][SearchNext]_vars

\* ---- a second tab -----------------------------------------------------------
\* The second tab runs the same provider on the same storage key.  Of its state
\* the model keeps the line items, the cart its load effect queued and the
\* position of the provider; its totals and pricing parameters touch nothing
\* that the tabs share.

\* the second tab is opened: CartProvider is constructed there
OtherCartProvider ==
    /\ otherPc = "closed"
    /\ otherPc' = "loadEffect"
    /\ otherItems' = <<>>
    /\ otherPending' = NoItems
    /\ UNCHANGED <<storeVars, views, lastWriter>>

OtherLoadEffect ==
    /\ otherPc = "loadEffect"
    /\ storage.kind \in {"absent", "empty", "array"}
    /\ otherPending' = IF storage.kind = "array"
                       THEN [hasItems |-> TRUE, items |-> JSONparse(storage)]
                       ELSE NoItems
    /\ otherPc' = "saveEffect"
    /\ UNCHANGED <<storeVars, views, otherItems, lastWriter>>

\* a save effect that adds its line items to the stored ones
OtherSaveEffectMerging ==
    /\ otherPc = "saveEffect"
    /\ storage' = IF storage.kind = "array"
                  THEN JSONstringify(JSONparse(storage) \o otherItems)
                  ELSE JSONstringify(otherItems)
    /\ otherPc' = "render"
    /\ lastWriter' = 2
    /\ UNCHANGED <<cartItems, cartCount, cartSubtotal, shipping, premiumPackPrice,
                   pending, pc, history, views, otherItems, otherPending>>

OtherSaveEffect ==
    /\ otherPc = "saveEffect"
    /\ storage' = JSONstringify(otherItems)
    /\ otherPc' = "render"
    /\ lastWriter' = 2
    /\ UNCHANGED <<cartItems, cartCount, cartSubtotal, shipping, premiumPackPrice,
                   pending, pc, history, views, otherItems, otherPending>>

\* the render that commits what the effects of the second tab queued
OtherRender ==
    /\ otherPc = "render"
    /\ IF otherPending.hasItems
       THEN otherItems' = otherPending.items /\ otherPc' = "saveEffect"
       ELSE otherItems' = otherItems /\ otherPc' = "idle"
    /\ otherPending' = NoItems
    /\ UNCHANGED <<storeVars, views, lastWriter>>

\* setCartItems in an event handler of the second tab
OtherSetCartItems(newItems) ==
    /\ otherPc \in {"idle", "render"} /\ ~otherPending.hasItems
    /\ otherItems' = newItems
    /\ otherPc' = "saveEffect"
    /\ UNCHANGED <<storeVars, views, otherPending, lastWriter>>

OtherAddToCart(card) ==
    /\ \A i \in 1..Len(otherItems) :
          otherItems[i].id = card._id => otherItems[i].quantity < MaxQty
    /\ OtherSetCartItems(AddToCartItems(otherItems, card))

OtherRemoveFromCart(id) ==
    /\ HasItem(otherItems, id)
    /\ OtherSetCartItems(RemoveItems(otherItems, id))

\* the cards the user adds in the first and in the second tab
ThisTabCards == {card \in Cards : card._id = 1 /\ card.Price = 499}
OtherTabCards == {card \in Cards : card._id = 2 /\ card.Price = NoPrice}

TabsInit ==
    /\ Init
    /\ storage.kind = "absent"

TabsNext ==
    \/ LoadEffect /\ UNCHANGED <<views, tabs>>
    \/ /\ SaveEffect
       /\ lastWriter' = 1
       /\ UNCHANGED <<views, otherItems, otherPending, otherPc>>
    \/ Render /\ UNCHANGED <<views, tabs>>
    \/ (\E card \in ThisTabCards : addToCart(card)) /\ UNCHANGED <<views, tabs>>
    \/ /\ \E i \in 1..Len(cartItems) : removeFromCart(cartItems[i].id)
       /\ UNCHANGED <<views, tabs>>
    \/ /\ \E i \in 1..Len(cartItems) : togglePremiumPackaging(cartItems[i].id)
       /\ UNCHANGED <<views, tabs>>
    \/ /\ \E i \in 1..Len(cartItems), quantity \in 1..MaxQty :
             updateQuantity(cartItems[i].id, quantity)
       /\ UNCHANGED <<views, tabs>>
    \/ clearCart /\ UNCHANGED <<views, tabs>>
    \/ OtherCartProvider
    \/ OtherLoadEffect
    \/ OtherSaveEffect
    \/ OtherRender
    \/ \E card \in OtherTabCards : OtherAddToCart(card)
    \/ \E i \in 1..Len(otherItems) : OtherRemoveFromCart(otherItems[i].id)

TabsSpec == TabsInit /\ [][TabsNext]_vars

\* ---- properties -----------------------------------------------------------
\* the state of the program, without the history variables
progVars == <<cartItems, cartCount, cartSubtotal, shipping, premiumPackPrice,
              storage, pending, pc>>

IdsOf(items) == [i \in 1..Len(items) |-> items[i].id]

\* C1: addToCart(card) on a cart that already holds a line item with
\* id = card._id raises exactly that item's quantity by 1 and adds no line
\* item; otherwise it appends exactly one line item at the end, with
\* quantity 1 and premiumPackaging = false.
C1_AddToCart ==
    [][\A card \in Cards : addToCart(card) =>
        IF HasItem(cartItems, card._id)
        THEN /\ Len(cartItems') = Len(cartItems)
             /\ Cardinality({i \in 1..Len(cartItems) : cartItems'[i] # cartItems[i]}) = 1
             /\ \A i \in 1..Len(cartItems) :
                    cartItems'[i] = IF cartItems[i].id = card._id
                                    THEN [cartItems[i] EXCEPT !.quantity = cartItems[i].quantity + 1]
                                    ELSE cartItems[i]
        ELSE /\ Len(cartItems') = Len(cartItems) + 1
             /\ SubSeq(cartItems', 1, Len(cartItems)) = cartItems
             /\ cartItems'[Len(cartItems')].id = card._id
             /\ cartItems'[Len(cartItems')].quantity = 1
             /\ cartItems'[Len(cartItems')].premiumPackaging = FALSE]_vars

\* the same card was added twice to an empty cart: one line item, quantity 2
C1_Witness ==
    /\ lastOp = "addToCart"
    /\ firstAdded = <<1>>
    /\ Len(cartItems) = 1
    /\ cartItems[1].id = 1
    /\ cartItems[1].quantity = 2

\* C2: in every state no two line items share an id, and the line items
\* stand in the order in which they were first added.
C2_UniqueInOrder ==
    /\ \A i, j \in 1..Len(cartItems) : cartItems[i].id = cartItems[j].id => i = j
    /\ (lastOp # "none" \/ pc = "idle") => IdsOf(cartItems) = firstAdded

\* card 2 was added after card 1, card 1 was removed and added again
C2_Witness ==
    /\ lastOp = "addToCart"
    /\ IdsOf(cartItems) = <<2, 1>>

\* C3: every line item has quantity >= 1, in every state, whatever integer
\* arguments the operations were called with.
C3_QuantityAtLeastOne ==
    \A i \in 1..Len(cartItems) : cartItems[i].quantity >= 1

\* updateQuantity was called with a quantity below 1 on a cart whose items
\* have quantity 1
C3_Witness ==
    /\ lastOp = "updateQuantityIgnored"
    /\ Len(cartItems) = 2
    /\ \A i \in 1..2 : cartItems[i].quantity = 1

\* C4: updateQuantity(id, n) with n >= 1 sets the quantity of the line item
\* with that id to n and changes no other field and no other line item; with
\* n < 1 it changes nothing at all; with an id that is not in the cart it
\* leaves the line items as they are; it never raises an error.
C4_UpdateQuantity ==
    [][\A id \in CardIds, n \in QuantityArgs : updateQuantity(id, n) =>
        /\ pc' # "crashed"
        /\ IF n < 1
           THEN UNCHANGED progVars
           ELSE IF ~HasItem(cartItems, id)
           THEN cartItems' = cartItems
           ELSE /\ Len(cartItems') = Len(cartItems)
                /\ \A i \in 1..Len(cartItems) :
                      cartItems'[i] = IF cartItems[i].id = id
                                      THEN [cartItems[i] EXCEPT !.quantity = n]
                                      ELSE cartItems[i]]_vars

\* updateQuantity changed the quantity of one of two line items
C4_Witness ==
    /\ lastOp = "updateQuantity"
    /\ pc = "saveEffect"
    /\ Len(cartItems) = 2
    /\ cartItems[1].quantity = 2
    /\ cartItems[2].quantity = 1
    /\ cartCount = 2

\* the sum of f[x] over the elements x of S
RECURSIVE SumOver(_, _)
SumOver(S, f) ==
    IF S = {} THEN 0
    ELSE LET x == CHOOSE y \in S : TRUE IN f[x] + SumOver(S \ {x}, f)

SumOfQuantities(items) ==
    SumOver(DOMAIN items, [i \in DOMAIN items |-> items[i].quantity])

SumOfPrices(items) ==
    SumOver(DOMAIN items, [i \in DOMAIN items |-> items[i].price * items[i].quantity])

SumOfPackaging(items, packPrice) ==
    LET premium == {i \in DOMAIN items : items[i].premiumPackaging}
    IN  SumOver(premium, [i \in premium |-> packPrice * items[i].quantity])

\* C5: for every cart and all pricing parameters the pricing functions equal
\* their reference formulas (money in cents, tax and total in 1/10000):
\* premium total = sum of premiumPackPrice * quantity over the items with
\* premium packaging; tax = (subtotal + shipping) * taxRate; total = subtotal +
\* shipping + premium total + tax, the subtotal being the store's cartSubtotal,
\* which is the sum of price * quantity whenever the store is idle.
C5_PricingFormulas ==
    /\ calculatePremiumPackagingTotal = SumOfPackaging(cartItems, premiumPackPrice)
    /\ getTaxAmount = TaxRatePct * cartSubtotal + TaxRatePct * shipping
    /\ calculateTotal = 100 * cartSubtotal + 100 * shipping
                          + 100 * SumOfPackaging(cartItems, premiumPackPrice) + getTaxAmount
    /\ pc = "idle" =>
          /\ getTaxAmount = TaxRatePct * (SumOfPrices(cartItems) + shipping)
          /\ calculateTotal = (100 + TaxRatePct) * (SumOfPrices(cartItems) + shipping)
                                + 100 * SumOfPackaging(cartItems, premiumPackPrice)

\* two line items, one of them with premium packaging and quantity 2, priced
\* with a shipping cost and a premium price that are not the defaults
C5_Witness ==
    /\ pc = "idle"
    /\ Len(cartItems) = 2
    /\ cartItems[1].premiumPackaging /\ cartItems[1].quantity = 2
    /\ ~cartItems[2].premiumPackaging
    /\ shipping # DefaultShipping
    /\ premiumPackPrice # DefaultPremiumPackPrice
    /\ calculatePremiumPackagingTotal = 2 * premiumPackPrice

\* C6: premium packaging is not taxed: toggling premium packaging and
\* changing premiumPackPrice leave getTaxAmount as it is, and the subtotal the
\* save effect recomputes does not depend on the flags; turning premium packaging on for an item of
\* quantity q raises calculateTotal by exactly premiumPackPrice * q; 4.99 x 2
\* with packaging at 19.99 and shipping 5.99 gives premium total 39.98, tax
\* 2.0761 and total 58.0261.
C6_PackagingNotTaxed ==
    /\ [][\A id \in CardIds :
            togglePremiumPackaging(id) => (getTaxAmount' = getTaxAmount)]_vars
    /\ [][\A v \in PremiumPackArgs :
            updatePremiumPackPrice(v) => (getTaxAmount' = getTaxAmount)]_vars
    /\ [][\A id \in CardIds : \A i \in 1..Len(cartItems) :
            ( /\ togglePremiumPackaging(id)
              /\ cartItems[i].id = id
              /\ ~cartItems[i].premiumPackaging )
            => (calculateTotal' = calculateTotal
                                  + 100 * premiumPackPrice * cartItems[i].quantity)]_vars
    /\ [](\A id \in CardIds :
            ReduceSubtotal(TogglePremiumItems(cartItems, id), 0) = ReduceSubtotal(cartItems, 0))
    /\ [](( /\ pc = "idle"
            /\ Len(cartItems) = 1
            /\ cartItems[1].price = 499 /\ cartItems[1].quantity = 2
            /\ cartItems[1].premiumPackaging
            /\ shipping = 599 /\ premiumPackPrice = 1999 )
           => ( /\ calculatePremiumPackagingTotal = 3998
                /\ getTaxAmount = 20761
                /\ calculateTotal = 580261 ))

\* premium packaging was just turned on for the single item 4.99 x 2
C6_Witness ==
    /\ lastOp = "togglePremiumPackaging"
    /\ pc = "idle"
    /\ Len(cartItems) = 1
    /\ cartItems[1].price = 499 /\ cartItems[1].quantity = 2
    /\ cartItems[1].premiumPackaging
    /\ shipping = 599 /\ premiumPackPrice = 1999
    /\ calculateTotal = 580261

\* a user event that mutates the cart
CartEvent ==
    \/ AddToCartStep
    \/ \E id \in CardIds, n \in 1..MaxQty : updateQuantity(id, n)
    \/ TogglePremiumStep
    \/ RemoveFromCartStep
    \/ clearCart

\* C7: every mutating cart operation is followed by a recomputation after
\* which cartCount is the sum of the quantities and cartSubtotal the sum of
\* price * quantity over the current line items, and the recomputation is
\* complete before the next user event is processed: every user event finds
\* cartCount and cartSubtotal equal to the sums.
C7_RecomputedBeforeNextEvent ==
    [][CartEvent =>
        /\ cartCount = SumOfQuantities(cartItems)
        /\ cartSubtotal = SumOfPrices(cartItems)]_vars

\* C8: after every mutating cart operation the entry 'lorcanaCart' is
\* rewritten in full and equals the current ordered list of line items, with
\* all their fields, before the next user event is processed; after the only
\* item was removed or the cart was cleared it is the empty array.
C8_StorageEqualsCart ==
    /\ [](pc \in {"idle", "render"} =>
            /\ storage = JSONstringify(cartItems)
            /\ JSONparse(storage) = cartItems
            /\ cartItems = <<>> => storage = StorageEntry("array", <<>>))
    /\ [][CartEvent => storage = JSONstringify(cartItems)]_vars

\* the only item, of quantity 1, was removed: the save effect has written the
\* empty array, the cart count of the removed item is still displayed
C8_Witness ==
    /\ lastOp = "removeFromCart"
    /\ pc = "render"
    /\ cartItems = <<>>
    /\ cartCount = 1
    /\ storage = StorageEntry("array", <<>>)

\* C9: a session started from a cart that an earlier session persisted has,
\* once initialization has settled, line items equal to the persisted cart
\* item for item and in order, cartCount and cartSubtotal derived from it,
\* and the persisted cart still in storage.
C9_RehydrationRoundTrip ==
    (persisted.valid /\ persisted.entry.kind = "array" /\ pc = "idle") =>
        /\ cartItems = JSONparse(persisted.entry)
        /\ JSONstringify(cartItems) = persisted.entry
        /\ cartCount = SumOfQuantities(JSONparse(persisted.entry))
        /\ cartSubtotal = SumOfPrices(JSONparse(persisted.entry))
        /\ storage = persisted.entry

\* a cart of two items, one without name and image and one with premium
\* packaging, was rehydrated
C9_Witness ==
    /\ persisted.valid
    /\ persisted.entry.kind = "array"
    /\ pc = "idle"
    /\ Len(persisted.entry.text) = 2
    /\ Len(cartItems) = 2
    /\ cartItems[1].name = Undefined
    /\ cartItems[2].premiumPackaging
    /\ cartItems[2].quantity = 2
    /\ cartCount = 3

\* C10: a session started with the entry absent, unparseable or not an array
\* of line items starts with an empty cart and startup does not fail.
C10_MalformedStartsEmpty ==
    (persisted.valid /\ persisted.entry.kind # "array") =>
        /\ pc # "crashed"
        /\ pc = "idle" => cartItems = <<>>

\* C11: togglePremiumPackaging(id) flips premiumPackaging of exactly the line
\* item with that id and changes nothing else, it leaves the line items as
\* they are when the id is absent, and applied twice it gives back the cart
\* and with it the premium packaging total.
C11_ToggleTwice ==
    /\ [][\A id \in CardIds : togglePremiumPackaging(id) =>
            /\ Len(cartItems') = Len(cartItems)
            /\ \A i \in 1..Len(cartItems) :
                  cartItems'[i] = IF cartItems[i].id = id
                                  THEN [cartItems[i] EXCEPT
                                          !.premiumPackaging = ~cartItems[i].premiumPackaging]
                                  ELSE cartItems[i]
            /\ ~HasItem(cartItems, id) => cartItems' = cartItems
            /\ UNCHANGED <<cartCount, cartSubtotal, shipping, premiumPackPrice, storage>>]_vars
    /\ [](\A id \in CardIds :
            LET once == TogglePremiumItems(cartItems, id)
                twice == TogglePremiumItems(once, id)
            IN  /\ twice = cartItems
                /\ ReducePremium(twice, premiumPackPrice, 0) = calculatePremiumPackagingTotal
                /\ HasItem(cartItems, id) => once # cartItems)

\* premium packaging was switched for one of two line items
C11_Witness ==
    /\ lastOp = "togglePremiumPackaging"
    /\ pc = "saveEffect"
    /\ Len(cartItems) = 2
    /\ cartItems[1].premiumPackaging
    /\ ~cartItems[2].premiumPackaging

\* C12: removeFromCart(id) deletes exactly the line item with that id and
\* leaves the other line items unchanged and in order; it leaves the line
\* items as they are when the id is absent; after the only item was removed
\* the cart is empty and, once recomputed, cartCount = 0.
C12_RemoveFromCart ==
    /\ [][\A id \in CardIds : removeFromCart(id) =>
            /\ cartItems' = SelectSeq(cartItems, LAMBDA item : item.id # id)
            /\ Len(cartItems') = Len(cartItems) - (IF HasItem(cartItems, id) THEN 1 ELSE 0)
            /\ ~HasItem(cartItems, id) => cartItems' = cartItems
            /\ (Len(cartItems) = 1 /\ HasItem(cartItems, id)) => cartItems' = <<>>]_vars
    /\ []((pc = "idle" /\ cartItems = <<>>) => cartCount = 0)

\* the first of two line items was removed; the count of both is still shown
C12_Witness ==
    /\ lastOp = "removeFromCart"
    /\ pc = "saveEffect"
    /\ firstAdded = <<2>>
    /\ Len(cartItems) = 1
    /\ cartItems[1].id = 2
    /\ cartCount = 2

\* C13: a line item appended by addToCart has the catalog item's price as its
\* unit price whenever the catalog item carries a price, 0 included, and the
\* fallback price only when the catalog item has no price.
C13_CatalogPrice ==
    [][\A card \in Cards :
         (addToCart(card) /\ ~HasItem(cartItems, card._id)) =>
             cartItems'[Len(cartItems')].price =
                 IF card.Price = NoPrice THEN FallbackPrice ELSE card.Price]_vars

\* C14: name, image and unit price of a line item stay what they were when
\* the item was first added: no step changes them while the item is in the
\* cart, neither addToCart with changed catalog data for the same id (which
\* only raises the quantity by one) nor any other operation.
C14_FixedAtFirstAdd ==
    /\ [][\A i \in 1..Len(cartItems) : \A j \in 1..Len(cartItems') :
            cartItems[i].id = cartItems'[j].id =>
                /\ cartItems'[j].name = cartItems[i].name
                /\ cartItems'[j].image = cartItems[i].image
                /\ cartItems'[j].price = cartItems[i].price]_vars
    /\ [][\A card \in Cards :
            (addToCart(card) /\ HasItem(cartItems, card._id)) =>
                /\ Len(cartItems') = Len(cartItems)
                /\ \A i \in 1..Len(cartItems) :
                      cartItems'[i] = IF cartItems[i].id = card._id
                                      THEN [cartItems[i] EXCEPT !.quantity = @ + 1]
                                      ELSE cartItems[i]]_vars

\* card 1 was added a second time after the catalog changed its data
C14_Witness ==
    /\ lastOp = "addToCartChanged"
    /\ pc = "saveEffect"
    /\ Len(cartItems) = 1
    /\ cartItems[1].name = "Elsa"
    /\ cartItems[1].image = "elsa.png"
    /\ cartItems[1].price = 499
    /\ cartItems[1].quantity = 2

\* C15: updateShipping(v) overwrites the shipping cost and nothing else, and
\* updatePremiumPackPrice(v) overwrites the premium packaging unit price and
\* nothing else: line items, cartCount, cartSubtotal, the other pricing
\* parameter and the stored cart stay as they are (taxRate is a constant).
C15_PricingParameters ==
    /\ [][\A v \in ShippingArgs : updateShipping(v) =>
            /\ shipping' = v
            /\ UNCHANGED <<cartItems, cartCount, cartSubtotal, premiumPackPrice, storage>>]_vars
    /\ [][\A v \in PremiumPackArgs : updatePremiumPackPrice(v) =>
            /\ premiumPackPrice' = v
            /\ UNCHANGED <<cartItems, cartCount, cartSubtotal, shipping, storage>>]_vars

\* both pricing parameters were overwritten while the cart holds an item that
\* is stored
C15_Witness ==
    /\ pc = "idle"
    /\ shipping = 1250
    /\ premiumPackPrice = 500
    /\ Len(cartItems) = 1
    /\ cartCount = 1
    /\ storage = JSONstringify(cartItems)

\* C19: with two tabs on the same storage key the stored entry is the full
\* list of line items of the tab that wrote last, never a merge of the two
\* carts: every write stores the writer's list, and as long as the writer has
\* not changed its cart since, the entry equals its cart; a write of one tab
\* changes nothing in the memory of the other.
C19_LastWriteWins ==
    /\ []((lastWriter = 1 /\ pc \in {"render", "idle"}) =>
             storage = JSONstringify(cartItems))
    /\ []((lastWriter = 2 /\ otherPc \in {"render", "idle"}) =>
             storage = JSONstringify(otherItems))
    /\ [][storage' # storage =>
            \/ /\ lastWriter' = 1
               /\ storage' = JSONstringify(cartItems)
               /\ UNCHANGED <<otherItems, otherPending, otherPc>>
            \/ /\ lastWriter' = 2
               /\ storage' = JSONstringify(otherItems)
               /\ UNCHANGED <<cartItems, cartCount, cartSubtotal, pending, pc>>]_vars
    /\ [][\/ UNCHANGED <<cartItems, cartCount, cartSubtotal, pending, pc>>
          \/ UNCHANGED <<otherItems, otherPending, otherPc>>]_vars

\* the second tab wrote last: the entry holds its cart with card 2 only, while
\* the first tab still holds card 1 in memory
C19_Witness ==
    /\ lastWriter = 2
    /\ pc = "idle"
    /\ otherPc = "idle"
    /\ IdsOf(cartItems) = <<1>>
    /\ IdsOf(otherItems) = <<2>>
    /\ storage = JSONstringify(otherItems)
    /\ storage # JSONstringify(cartItems)

\* C20: the worked example in fixed point (cents, tax and total in 1/10000):
\* tax rate 13 percent, shipping 5.99 and one line item of price 4.99 and
\* quantity 2 without premium packaging give cartSubtotal 9.98,
\* getTaxAmount 2.0761 and calculateTotal 18.0461.
C20_WorkedExample ==
    (/\ pc = "idle"
     /\ shipping = 599
     /\ Len(cartItems) = 1
     /\ cartItems[1].price = 499
     /\ cartItems[1].quantity = 2
     /\ ~cartItems[1].premiumPackaging)
    => (/\ TaxRatePct = 13
        /\ cartSubtotal = 998
        /\ getTaxAmount = 20761
        /\ calculateTotal = 180461)

\* the cart of the worked example, recomputed and priced
C20_Witness ==
    /\ pc = "idle"
    /\ shipping = 599
    /\ Len(cartItems) = 1
    /\ cartItems[1].price = 499
    /\ cartItems[1].quantity = 2
    /\ ~cartItems[1].premiumPackaging
    /\ calculateTotal = 180461

\* C16: a failed fetch leaves prior state untouched: the step in which the
\* pricing request of the cart view fails leaves the store's shipping cost,
\* premium packaging price and line items as they were, and the step in which
\* a card search fails leaves the search results as they were (the request that
\* fails is one that the step takes out of the requests in flight).
C16_FailedFetchKeepsState ==
    /\ [][\A request \in fetching \ fetching' : FetchPricingFails(request) =>
            UNCHANGED <<shipping, premiumPackPrice, cartItems>>]_vars
    /\ [][\A request \in fetching \ fetching' : SearchFails(request) =>
            UNCHANGED searchResults]_vars

\* the pricing request of the mounted cart view failed after an earlier
\* response had given the store other pricing parameters than the defaults
C16_Witness ==
    /\ lastFetch = [api |-> "getPricingSettings", view |-> "Cart", ok |-> FALSE,
                    live |-> TRUE]
    /\ route = "/cart"
    /\ cartItems # <<>>
    /\ shipping = 799
    /\ premiumPackPrice = 2499
    /\ Len(shippingOptions) = 2

\* C17: every failed request puts the view that sent it, if it is still
\* mounted, into a state that shows an error message: the cart view (where
\* the only text that depends on the outcome of the request is "No shipping
\* options available"), the card list, the admin view and its card search.
C17_FailureShowsError ==
    [][\A request \in fetching : request.live =>
        /\ FetchPricingFails(request) =>
              (cartItems # <<>> /\ ShippingMethod = "No shipping options available")'
        /\ FetchCardsFails(request) => (DisplayCardShows = "Error loading cards")'
        /\ (\/ FetchSettingsFails(request)
            \/ SaveSettingsFails(request)
            \/ ApplyRarityPricingFails(request)) => (saveStatus = Status("", "danger"))'
        /\ (SearchFails(request) \/ UpdateCardPriceFails(request)) =>
              (statusMessage = Status("", "danger"))']_vars

\* C18: whenever a shipping option is selected in the cart view, the store's
\* shipping cost equals the price of the selected option in the loaded
\* shipping-options table and equals the shipping amount the view shows.
C18_SelectedShippingCharged ==
    (route = "/cart" /\ selectedShippingOption # NoSelection) =>
        /\ FindOption(shippingOptions, selectedShippingOption) # 0
        /\ shipping = shippingOptions[FindOption(shippingOptions, selectedShippingOption)].price
        /\ shipping = getSelectedShippingPrice

\* C21: in every state of the store calculateTotal() >= cartSubtotal +
\* shipping (the total in 1/10000, the other two in cents), for every shipping
\* cost and premium packaging price that the cart view has injected from a
\* response of the pricing settings.
C21_TotalAtLeastSubtotalAndShipping ==
    calculateTotal >= (cartSubtotal + shipping) * 100

\* the line items in the order that the permutation f of their positions gives
Reordered(items, f) == [i \in 1..Len(items) |-> items[f[i]]]

C23_NoStaleRead ==
    pc \in {"loadEffect", "saveEffect", "render", "idle"} =>
        /\ cartCount = SumOfQuantities(cartItems)
        /\ cartSubtotal = SumOfPrices(cartItems)
        /\ getTaxAmount = (SumOfPrices(cartItems) + shipping) * TaxRatePct
        /\ calculateTotal = (SumOfPrices(cartItems) + shipping
                               + SumOfPackaging(cartItems, premiumPackPrice)) * 100
                              + (SumOfPrices(cartItems) + shipping) * TaxRatePct

\* C24: the cart view requests the pricing settings on mount only: a step
\* issues a pricing request of the mounted cart view only if it mounts the
\* view; no cart mutation, no update of the store's shipping cost or premium
\* packaging price and no failed request issues one.
C24_FetchOnMountOnly ==
    [][\A request \in fetching' \ fetching :
         (request.api = "getPricingSettings" /\ request.view = "Cart" /\ request.live)
             => (route # "/cart" /\ route' = "/cart")]_vars

\* C25: in every rendered state of the card list, whatever next-page,
\* previous-page and page-item clicks, filter changes, clear-filters and
\* cards-per-page changes came before, 1 <= currentPage <= max(1, totalPages)
\* with totalPages = ceil(filteredCards.length / cardsPerPage).
C25_CurrentPageInRange ==
    /\ 1 <= currentPage
    /\ currentPage <= (IF totalPages > 1 THEN totalPages ELSE 1)

\* C26: a price update that succeeds gives the new price to exactly the search
\* result whose _id is the one of the card that was selected when the update
\* was sent, and leaves every other result as it was; a price update that
\* fails leaves the search results as they were and shows a danger status; a
\* price update is sent only with a card selected and a price in the field,
\* for that card and that price, and a click that finds the field empty
\* sends nothing and changes neither the view nor the catalog
C26_PriceUpdateOfSelectedCard ==
    [][/\ \A request \in fetching \ fetching' :
            (request.api = "updateCardPrice" /\ request.live) =>
                IF lastFetch'.ok
                THEN /\ Len(searchResults') = Len(searchResults)
                     /\ \A i \in 1..Len(searchResults) :
                            IF searchResults[i]._id = request.card
                            THEN /\ searchResults'[i].Price = request.price
                                 /\ searchResults'[i] =
                                        [searchResults[i] EXCEPT !.Price = request.price]
                            ELSE searchResults'[i] = searchResults[i]
                ELSE /\ searchResults' = searchResults
                     /\ statusMessage'.show /\ statusMessage'.variant = "danger"
       /\ \A request \in fetching' \ fetching :
            request.api = "updateCardPrice" =>
                /\ selectedCard # NoCard /\ newCardPrice # EmptyText
                /\ request.card = selectedCard
                /\ request.price = parseFloat(newCardPrice)
       /\ (lastFetch' = NotSent("CardSearch") /\ lastFetch # NotSent("CardSearch")) =>
            /\ selectedCard = NoCard \/ newCardPrice = EmptyText
            /\ UNCHANGED <<fetching, cardSearch, services>>
      ]_vars

\* an update of the first of two results has succeeded: the first result has
\* the typed price, the second still has none
C26_Witness ==
    /\ lastFetch = [api |-> "updateCardPrice", view |-> "CardSearch", ok |-> TRUE,
                    live |-> TRUE]
    /\ Len(searchResults) = 2
    /\ searchResults[1]._id = 1 /\ searchResults[1].Price = 650
    /\ searchResults[2]._id = 2 /\ searchResults[2].Price = NoPrice

\* C27: once the user has selected a shipping option in the cart view (the
\* option "canada-wide" is never the one the view selects by itself), no step
\* that handles a response of the pricing settings, were its request in
\* flight before the selection or not, changes the selected option or sets
\* the shipping cost of the store to the price of the first option.
C27_ExplicitSelectionKept ==
    [][(/\ route = "/cart" /\ route' = "/cart"
        /\ selectedShippingOption = "canada-wide"
        /\ shipping = shippingOptions[FindOption(shippingOptions, "canada-wide")].price
        /\ \E request \in fetching \ fetching' : request.api = "getPricingSettings")
          => /\ selectedShippingOption' = selectedShippingOption
             /\ shipping' = shipping
      ]_vars

\* C28: in every state in which the cart view is mounted, the premium
\* packaging price the view multiplies into the surcharge of a line equals
\* the premium packaging price the store multiplies into its premium
\* packaging total, also after the view was unmounted and mounted again and
\* after a response without a premium packaging price or a failed request.
C28_ViewPremiumPriceIsStorePrice ==
    route = "/cart" => viewPremiumPackPrice = premiumPackPrice

\* C29: from the start of a session on a non-empty stored cart until the
\* first cart operation, at every step of the mount sequence the storage
\* entry is the cart that was stored before the session started; it is never
\* overwritten with an empty array on the way.
C29_InitializationKeepsStoredCart ==
    (/\ persisted.valid
     /\ persisted.entry.kind = "array" /\ Len(persisted.entry.text) > 0)
        => storage = persisted.entry

\* C30: in the admin view a banner of variant danger, raised by a save or an
\* application of the rarity prices that failed, is hidden only by its
\* dismissal or replaced by a later status: the timer that an earlier
\* successful save started never hides it.
C30_TimerKeepsErrorBanner ==
    [][(hideTimer /\ ~hideTimer' /\ saveStatus.show /\ saveStatus.variant = "danger")
          => saveStatus' = saveStatus]_vars

====
